---- MODULE Spec2Model ----
(***************************************************************************)
(* Document-Q-A-Assistant: the keyword search engine of                    *)
(* app/services/document_search_service.py (DocumentSearchService) with    *)
(* the block model of app/models/document_block.py.                        *)
(*                                                                         *)
(* Text is a sequence of one-character strings, so that sorting, joining,  *)
(* substring search, cleaning and tokenising are computed, not assumed.    *)
(***************************************************************************)
EXTENDS Integers, Sequences, FiniteSets, TLC

(***************************************************************************)
(* Characters                                                              *)
(*                                                                         *)
(* A character is a one-character string; a character outside ASCII is     *)
(* written by its code point name: "U+4E00" is the CJK numeral one,        *)
(* "U+3001" the ideographic comma, "U+3002" the ideographic full stop,     *)
(* "U+5B89" "U+88C5" the two ideographs of the title keyword for           *)
(* "installation", "U+2022" the bullet.                                    *)
(***************************************************************************)

LowerLetters ==
    << "a", "b", "c", "d", "e", "f", "g", "h", "i", "j", "k", "l", "m",
       "n", "o", "p", "q", "r", "s", "t", "u", "v", "w", "x", "y", "z" >>

UpperLetters ==
    << "A", "B", "C", "D", "E", "F", "G", "H", "I", "J", "K", "L", "M",
       "N", "O", "P", "Q", "R", "S", "T", "U", "V", "W", "X", "Y", "Z" >>

Digits == << "0", "1", "2", "3", "4", "5", "6", "7", "8", "9" >>

\* the elements of a sequence, as a set
Range(s) == {s[i] : i \in 1..Len(s)}

IndexOf(ch, s) == CHOOSE i \in 1..Len(s) : s[i] = ch

IsLower(ch) == ch \in Range(LowerLetters)

IsUpper(ch) == ch \in Range(UpperLetters)

IsDigit(ch) == ch \in Range(Digits)

\* [a-zA-Z0-9]
IsAlnum(ch) == IsLower(ch) \/ IsUpper(ch) \/ IsDigit(ch)

\* [\u4e00-\u9fff], on the model's characters
IsCJK(ch) == ch \in {"U+4E00", "U+5B89", "U+88C5"}

\* Unicode code point (Python compares str values code point by code point)
Ord(ch) ==
    IF IsLower(ch) THEN 96 + IndexOf(ch, LowerLetters)
    ELSE IF IsUpper(ch) THEN 64 + IndexOf(ch, UpperLetters)
    ELSE IF IsDigit(ch) THEN 47 + IndexOf(ch, Digits)
    ELSE CASE ch = "\n" -> 10
           [] ch = " "  -> 32
           [] ch = "#"  -> 35
           [] ch = "$"  -> 36
           [] ch = ")"  -> 41
           [] ch = "*"  -> 42
           [] ch = ","  -> 44
           [] ch = "-"  -> 45
           [] ch = "."  -> 46
           [] ch = "~"  -> 126
           [] ch = "U+2022" -> 8226
           [] ch = "U+3001" -> 12289
           [] ch = "U+3002" -> 12290
           [] ch = "U+4E00" -> 19968
           [] ch = "U+5B89" -> 23433
           [] ch = "U+88C5" -> 35013

\* \s of Python's re module, on the model's characters
IsSpace(ch) == ch \in {" ", "\n"}

\* \w of Python's re module (Unicode), on the model's characters
IsWordChar(ch) == IsAlnum(ch) \/ IsCJK(ch)

\* the punctuation clean_text keeps, on the model's characters
IsKeptPunct(ch) == ch \in {".", ",", "U+3002"}

\* str.lower(), one character
LowerChar(ch) == IF IsUpper(ch) THEN LowerLetters[IndexOf(ch, UpperLetters)] ELSE ch

(***************************************************************************)
(* Sequence helpers standing for Python built-ins                          *)
(***************************************************************************)

Min(a, b) == IF a <= b THEN a ELSE b

Max(a, b) == IF a >= b THEN a ELSE b

\* str < str : lexicographic on code points, a proper prefix is smaller
RECURSIVE StrLess(_, _)
StrLess(s, t) ==
    IF t = <<>> THEN FALSE
    ELSE IF s = <<>> THEN TRUE
    ELSE IF Ord(Head(s)) < Ord(Head(t)) THEN TRUE
    ELSE IF Ord(Head(s)) > Ord(Head(t)) THEN FALSE
    ELSE StrLess(Tail(s), Tail(t))

\* insertion of one string into a sorted list, after its equals (stable)
RECURSIVE InsertSorted(_, _)
InsertSorted(x, l) ==
    IF l = <<>> THEN <<x>>
    ELSE IF StrLess(x, Head(l)) THEN <<x>> \o l
    ELSE <<Head(l)>> \o InsertSorted(x, Tail(l))

\* sorted(list of str)
RECURSIVE sorted(_)
sorted(l) ==
    IF l = <<>> THEN <<>>
    ELSE InsertSorted(l[Len(l)], sorted(SubSeq(l, 1, Len(l) - 1)))

\* sep.join(list of str)
RECURSIVE join(_, _)
join(sep, l) ==
    IF l = <<>> THEN <<>>
    ELSE IF Len(l) = 1 THEN l[1]
    ELSE l[1] \o sep \o join(sep, Tail(l))

\* sub in text
IsSubstr(sub, text) ==
    \E i \in 0..(Len(text) - Len(sub)) : SubSeq(text, i + 1, i + Len(sub)) = sub

\* text.startswith(prefix)
startswith(text, prefix) ==
    /\ Len(prefix) <= Len(text)
    /\ SubSeq(text, 1, Len(prefix)) = prefix

\* text.endswith(suffix)
endswith(text, suffix) ==
    /\ Len(suffix) <= Len(text)
    /\ SubSeq(text, Len(text) - Len(suffix) + 1, Len(text)) = suffix

\* hashlib.md5(...).hexdigest(), taken to be collision-free: the digest of a
\* text is a value that determines the text and is not the text
md5(text) == [digest |-> text]

(***************************************************************************)
(* DocumentSearchService._get_cache_key                                    *)
(***************************************************************************)

\* the key without sorted(): the keywords are joined in the order given
CacheKeyUnsorted(keywords) == md5(join(<<",">>, keywords))

_get_cache_key(keywords) == md5(join(<<",">>, sorted(keywords)))

(***************************************************************************)
(* DocumentSearchService.clean_text                                        *)
(***************************************************************************)

\* re.sub(r'\s+', ' ', text): every run of whitespace becomes one space
\* a character of a whitespace run that another whitespace character follows
InsideRun(text, i) == IsSpace(text[i]) /\ i < Len(text) /\ IsSpace(text[i + 1])

IsKeptMark(mark) == mark # "inside"

CollapseWhitespace(text) ==
    SelectSeq([i \in 1..Len(text) |->
                  IF InsideRun(text, i) THEN "inside"
                  ELSE IF IsSpace(text[i]) THEN " " ELSE text[i]],
              IsKeptMark)

\* re.sub(r'[^\w\s\u4e00-\u9fff.,...]', '', text): other characters are dropped
KeptByCleanText(ch) == IsWordChar(ch) \/ IsSpace(ch) \/ IsKeptPunct(ch)

RemoveSpecial(text) == SelectSeq(text, KeptByCleanText)

\* str.strip()
RECURSIVE lstrip(_)
lstrip(text) ==
    IF text # <<>> /\ IsSpace(Head(text)) THEN lstrip(Tail(text)) ELSE text

RECURSIVE rstrip(_)
rstrip(text) ==
    IF text # <<>> /\ IsSpace(text[Len(text)])
    THEN rstrip(SubSeq(text, 1, Len(text) - 1))
    ELSE text

strip(text) == rstrip(lstrip(text))

clean_text(text) ==
    IF text = <<>> THEN <<>>
    ELSE strip(RemoveSpecial(CollapseWhitespace(text)))

(***************************************************************************)
(* DocumentSearchService._calculate_similarity                             *)
(***************************************************************************)

\* the longest prefix of text made of [a-zA-Z0-9]
RECURSIVE AlnumRun(_)
AlnumRun(text) ==
    IF text # <<>> /\ IsAlnum(Head(text))
    THEN <<Head(text)>> \o AlnumRun(Tail(text))
    ELSE <<>>

\* the longest prefix of text made of digits
RECURSIVE DigitRun(_)
DigitRun(text) ==
    IF text # <<>> /\ IsDigit(Head(text))
    THEN <<Head(text)>> \o DigitRun(Tail(text))
    ELSE <<>>

\* length of the token [a-zA-Z0-9]+(?:\.\d+)? at the head of text
TokenLen(text) ==
    LET n    == Len(AlnumRun(text))
        rest == SubSeq(text, n + 1, Len(text))
    IN  IF Len(rest) > 1 /\ rest[1] = "." /\ IsDigit(rest[2])
        THEN n + 1 + Len(DigitRun(Tail(rest)))
        ELSE n

\* jieba.lcut on cleaned text without CJK words: a run of ASCII letters and
\* digits (with a decimal part, if any) is one token, every other
\* character (a space, a punctuation mark) is a token of its own
RECURSIVE lcut(_)
lcut(text) ==
    IF text = <<>> THEN <<>>
    ELSE IF IsAlnum(Head(text))
         THEN <<SubSeq(text, 1, TokenLen(text))>>
              \o lcut(SubSeq(text, TokenLen(text) + 1, Len(text)))
         ELSE <<(<<Head(text)>>)>> \o lcut(Tail(text))

\* A similarity score is the fraction num/den of two small integers, kept
\* as <<num, den>> with den > 0; Python's float division maps equal
\* fractions to equal floats and distinct ones to distinct floats here.
ScoreEq(p, q) == p[1] * q[2] = q[1] * p[2]

ScoreLess(p, q) == p[1] * q[2] < q[1] * p[2]

ScoreLeq(p, q) == p[1] * q[2] <= q[1] * p[2]

\* a score that divides by the number of keywords
SimilarityOverKeywords(block, keywords) ==
    LET block_words  == Range(lcut(block.content))
        keyword_set  == Range(keywords)
        intersection == Cardinality(keyword_set \cap block_words)
    IN  IF keyword_set # {} THEN <<intersection, Cardinality(keyword_set)>> ELSE <<0, 1>>

_calculate_similarity(block, keywords) ==
    LET block_words  == Range(lcut(block.content))
        keyword_set  == Range(keywords)
        intersection == Cardinality(keyword_set \cap block_words)
        union        == Cardinality(keyword_set \cup block_words)
    IN  IF union > 0 THEN <<intersection, union>> ELSE <<0, 1>>

\* sorted(blocks, key=lambda x: x.similarity_score, reverse=True): stable,
\* blocks of equal score keep their order
RECURSIVE InsertByScore(_, _)
InsertByScore(b, l) ==
    IF l = <<>> THEN <<b>>
    ELSE IF ScoreLess(Head(l).similarity_score, b.similarity_score)
         THEN <<b>> \o l
         ELSE <<Head(l)>> \o InsertByScore(b, Tail(l))

RECURSIVE SortByScoreDesc(_)
SortByScoreDesc(l) ==
    IF l = <<>> THEN <<>>
    ELSE InsertByScore(l[Len(l)], SortByScoreDesc(SubSeq(l, 1, Len(l) - 1)))

(***************************************************************************)
(* Configuration (config.SEARCH_CONFIG)                                    *)
(***************************************************************************)

\* SEARCH_CONFIG["max_results"]: the most records one search returns
max_results == 2

\* SEARCH_CONFIG["cache_size"]: the capacity get_cache_info reports
cache_size == 1

\* SEARCH_CONFIG["max_workers"]: the size of the thread pool
max_workers == 2

\* SEARCH_CONFIG["max_context_search"]: the backward window of headings
max_context_search == 20

\* SEARCH_CONFIG["context_range"]: adjacent paragraphs of Enhanced mode
context_range == 2

(***************************************************************************)
(* Regular expressions of the heading scorer, matched from the start of    *)
(* the text.  A partial match is the set of positions (number of           *)
(* characters consumed) it can end at, so that backtracking is covered.    *)
(***************************************************************************)

IsDot(ch) == ch = "."

\* [U+3001 .]
IsEnumSeparator(ch) == ch \in {"U+3001", "."}

\* [^\s]
IsNotSpace(ch) == ~IsSpace(ch)

\* the numeral ideographs one to ten, on the model's characters
IsCJKNumeral(ch) == ch = "U+4E00"

IsRoman(ch) == ch \in {"I", "V", "X"}

\* [-*U+2022]
IsBullet(ch) == ch \in {"-", "*", "U+2022"}

\* [.)]
IsStepSeparator(ch) == ch \in {".", ")"}

\* the character classes of the patterns, by name
InClass(cls, ch) ==
    CASE cls = "dot"       -> IsDot(ch)
      [] cls = "digit"     -> IsDigit(ch)
      [] cls = "separator" -> IsEnumSeparator(ch)
      [] cls = "space"     -> IsSpace(ch)
      [] cls = "notspace"  -> IsNotSpace(ch)
      [] cls = "numeral"   -> IsCJKNumeral(ch)
      [] cls = "upper"     -> IsUpper(ch)
      [] cls = "roman"     -> IsRoman(ch)
      [] cls = "bullet"    -> IsBullet(ch)
      [] cls = "step"      -> IsStepSeparator(ch)

\* one character of class cls after a position of S
One(text, S, cls) ==
    {p + 1 : p \in {q \in S : q < Len(text) /\ InClass(cls, text[q + 1])}}

\* cls? after a position of S
Opt(text, S, cls) == S \cup One(text, S, cls)

\* cls+ after a position of S
Plus(text, S, cls) ==
    {q \in 1..Len(text) :
        \E p \in S : p < q /\ \A i \in (p + 1)..q : InClass(cls, text[i])}

\* cls* after a position of S
Star(text, S, cls) == S \cup Plus(text, S, cls)

\* (\.[0-9]+)* after a position of S
RECURSIVE DottedGroups(_, _)
DottedGroups(text, S) ==
    LET T == S \cup Plus(text, One(text, S, "dot"), "digit")
    IN  IF T = S THEN S ELSE DottedGroups(text, T)

\* ^[0-9]+(\.[0-9]+)* : the positions the Arabic numbering can end at
ArabicNumbering(text) == DottedGroups(text, Plus(text, {0}, "digit"))

\* ... [U+3001 .]?\s*[^\s] after a numbering that ends at a position of S
EnumTail(text, S) ==
    One(text, Star(text, Opt(text, S, "separator"), "space"), "notspace") # {}

\* re.match(r'^[0-9]+(\.[0-9]+)*[U+3001 .]?\s*[^\s]', text)
MatchArabicEnum(text) == EnumTail(text, ArabicNumbering(text))

\* re.match(r'^[CJK numerals]+[U+3001 .]?\s*[^\s]', text)
MatchCJKEnum(text) == EnumTail(text, Plus(text, {0}, "numeral"))

\* re.match(r'^[A-Z]+[U+3001 .]?\s*[^\s]', text)
MatchUpperEnum(text) == EnumTail(text, Plus(text, {0}, "upper"))

\* re.match(r'^[IVX]+[U+3001 .]?\s*[^\s]', text)
MatchRomanEnum(text) == EnumTail(text, Plus(text, {0}, "roman"))

\* re.match(r'^[-*U+2022]\s', text)
MatchBullet(text) == One(text, One(text, {0}, "bullet"), "space") # {}

\* re.match(r'^\s*\d+[.)]\s', text)
MatchStep(text) ==
    One(text, One(text, Plus(text, Star(text, {0}, "space"), "digit"),
                  "step"), "space") # {}

\* number of '.' among the first n characters of text
DotCount(text, n) == Cardinality({i \in 1..n : text[i] = "."})

SetMax(S) == CHOOSE m \in S : \A k \in S : k <= m

(***************************************************************************)
(* DocumentSearchService._calculate_title_score, _determine_title_level    *)
(***************************************************************************)

\* str.lower()
lower(text) == [i \in 1..Len(text) |-> LowerChar(text[i])]

StyleHeading == <<"H", "e", "a", "d", "i", "n", "g">>

StyleTitle == <<"T", "i", "t", "l", "e">>

\* the two ideographs of the Chinese word for "title"
StyleBiaoti == <<"U+6807", "U+9898">>

\* title_keywords: the English entries, and of the Chinese entries the one
\* written with the model's characters (U+5B89 U+88C5, "installation")
title_keywords ==
    { <<"o","v","e","r","v","i","e","w">>,
      <<"i","n","t","r","o","d","u","c","t","i","o","n">>,
      <<"b","a","c","k","g","r","o","u","n","d">>,
      <<"o","b","j","e","c","t","i","v","e">>,
      <<"m","e","t","h","o","d">>,
      <<"p","r","o","c","e","s","s">>,
      <<"c","o","n","f","i","g","u","r","a","t","i","o","n">>,
      <<"i","n","s","t","a","l","l","a","t","i","o","n">>,
      <<"d","e","p","l","o","y","m","e","n","t">>,
      <<"m","a","n","a","g","e","m","e","n","t">>,
      <<"m","o","n","i","t","o","r","i","n","g">>,
      <<"t","r","o","u","b","l","e","s","h","o","o","t","i","n","g">>,
      <<"s","u","m","m","a","r","y">>,
      <<"U+5B89", "U+88C5">> }

\* The score is kept in hundredths: 0.4 is 40, 0.15 is 15, 0.05 is 5.
_calculate_title_score(para, text) ==
    LET style_part ==
            IF startswith(para.style, StyleHeading) THEN 40
            ELSE IF IsSubstr(StyleBiaoti, para.style) \/ IsSubstr(StyleTitle, para.style)
                 THEN 30
                 ELSE 0
        format_part ==
            IF MatchArabicEnum(text) THEN 15
            ELSE IF MatchCJKEnum(text) THEN 15
            ELSE IF MatchUpperEnum(text) THEN 10
            ELSE IF MatchRomanEnum(text) THEN 10
            ELSE 0
        length_part == IF 10 <= Len(text) /\ Len(text) <= 100 THEN 5 ELSE 0
        keyword_part ==
            IF \E keyword \in title_keywords : IsSubstr(keyword, lower(text))
            THEN 10 ELSE 0
        shape_part ==
            IF Len(text) < 50 /\ ~endswith(text, <<"U+3002">>) THEN 5 ELSE 0
    IN  Min(style_part + format_part + length_part + keyword_part + shape_part, 100)

\* the level without the cap at 6
TitleLevelUncapped(text) ==
    IF ArabicNumbering(text) # {}
    THEN DotCount(text, SetMax(ArabicNumbering(text))) + 1
    ELSE IF Plus(text, {0}, "numeral") # {} THEN 1
    ELSE IF One(text, Plus(text, {0}, "upper"), "separator") # {} THEN 2
    ELSE 3

_determine_title_level(text) ==
    IF ArabicNumbering(text) # {}
    THEN Min(DotCount(text, SetMax(ArabicNumbering(text))) + 1, 6)
    ELSE IF Plus(text, {0}, "numeral") # {} THEN 1
    ELSE IF One(text, Plus(text, {0}, "upper"), "separator") # {} THEN 2
    ELSE 3

(***************************************************************************)
(* Documents                                                               *)
(*                                                                         *)
(* A parsed document (docx.Document) is a record with the field paras,     *)
(* the sequence of its paragraphs, each [text, style] with style the       *)
(* style name.  Python's paragraph index i is paras[i + 1].  failAt says   *)
(* where reading the file raises: 0 never, k >= 1 when paragraph k - 1 is  *)
(* about to be read (1: the file cannot be opened or parsed at all).       *)
(***************************************************************************)

\* len(doc.paragraphs)
NumParas(doc) == Len(doc.paras)

\* clean_text(paragraphs[i].text)
CleanPara(doc, i) == clean_text(doc.paras[i + 1].text)

(***************************************************************************)
(* DocumentSearchService.get_heading_context                               *)
(***************************************************************************)

\* the placeholder context, four ideographs ("document content")
Placeholder == <<"U+6587", "U+6863", "U+5185", "U+5BB9">>

Ellipsis == <<".", ".", ".">>

\* the candidate appended for paragraph index with cleaned text and title
\* score title_score, if any
CandidateOf(index, text, title_score) ==
    IF text # <<>> /\ title_score > 0
    THEN << [index |-> index,
             text  |-> text,
             score |-> title_score,
             level |-> _determine_title_level(text)] >>
    ELSE <<>>

\* the candidate appended for paragraph index whose cleaned text is text
CandidateAt(doc, index, text) ==
    CandidateOf(index, text, _calculate_title_score(doc.paras[index + 1], text))

\* the loop over i = from, from - 1, ..., above + 1 that collects the
\* heading candidates, in the order the loop appends them
RECURSIVE CollectCandidates(_, _, _)
CollectCandidates(doc, from, above) ==
    IF from <= above THEN <<>>
    ELSE (IF from < NumParas(doc)
          THEN CandidateAt(doc, from, CleanPara(doc, from))
          ELSE <<>>)
         \o CollectCandidates(doc, from - 1, above)

\* a sort key that leaves the score out
CandidateBeforeByLevel(a, b) == a.level < b.level

\* the sort key (level, -score) of a candidate, compared as Python tuples
CandidateBefore(a, b) ==
    \/ a.level < b.level
    \/ a.level = b.level /\ a.score > b.score

RECURSIVE InsertCandidate(_, _)
InsertCandidate(c, l) ==
    IF l = <<>> THEN <<c>>
    ELSE IF CandidateBefore(c, Head(l)) THEN <<c>> \o l
    ELSE <<Head(l)>> \o InsertCandidate(c, Tail(l))

\* context_candidates.sort(key=lambda x: (x['level'], -x['score'])), stable
RECURSIVE SortCandidates(_)
SortCandidates(l) ==
    IF l = <<>> THEN <<>>
    ELSE InsertCandidate(l[Len(l)], SortCandidates(SubSeq(l, 1, Len(l) - 1)))

\* the loop that keeps the first candidate of each level, three at most
RECURSIVE PickLevels(_, _, _)
PickLevels(cands, used_levels, context_parts) ==
    IF cands = <<>> THEN context_parts
    ELSE IF Head(cands).level \in used_levels
         THEN PickLevels(Tail(cands), used_levels, context_parts)
         ELSE IF Len(context_parts) + 1 >= 3
              THEN Append(context_parts, Head(cands))
              ELSE PickLevels(Tail(cands), used_levels \cup {Head(cands).level},
                              Append(context_parts, Head(cands)))

\* reversed(list)
reversed(l) == [i \in 1..Len(l) |-> l[Len(l) + 1 - i]]

\* text[:n] + ('...' if len(text) > n else '')
Preview(text, n) ==
    SubSeq(text, 1, Min(n, Len(text))) \o (IF Len(text) > n THEN Ellipsis ELSE <<>>)

\* the test _find_important_paragraph makes on a cleaned text
IsImportant(text) ==
    /\ 20 <= Len(text) /\ Len(text) <= 200
    /\ ~MatchBullet(text) /\ ~MatchStep(text)

\* the first text of a sequence that passes the test: <<>> for None, else
\* a one-element sequence with its preview
RECURSIVE FirstImportant(_)
FirstImportant(texts) ==
    IF texts = <<>> THEN <<>>
    ELSE IF IsImportant(Head(texts)) THEN <<Preview(Head(texts), 50)>>
    ELSE FirstImportant(Tail(texts))

\* the cleaned texts of the paragraphs from, from - 1, ..., above + 1 that
\* exist
RECURSIVE CleanedBackwards(_, _, _)
CleanedBackwards(doc, from, above) ==
    IF from <= above THEN <<>>
    ELSE (IF from < NumParas(doc) /\ from >= 0 THEN <<CleanPara(doc, from)>> ELSE <<>>)
         \o CleanedBackwards(doc, from - 1, above)

\* _find_important_paragraph: the loop over i = from, ..., above + 1
FindImportantFrom(doc, from, above) ==
    FirstImportant(CleanedBackwards(doc, from, above))

_find_important_paragraph(doc, para_index) ==
    FindImportantFrom(doc, para_index - 1, Max(-1, para_index - 10))

\* the heading candidates chosen for the context, in the order chosen
SelectedHeadings(doc, para_index) ==
    LET search_range == Min(para_index + 1, max_context_search)
    IN  PickLevels(
            SortCandidates(
                CollectCandidates(doc, para_index, Max(-1, para_index - search_range))),
            {}, <<>>)

\* the texts of the chosen candidates
TextsOf(picked) == [i \in 1..Len(picked) |-> picked[i].text]

\* ' > '.join(reversed(context_parts)) if context_parts else the placeholder
JoinHeadings(context_parts) ==
    IF context_parts # <<>>
    THEN join(<<" ", ">", " ">>, reversed(context_parts))
    ELSE Placeholder

\* context_parts without the search for an important paragraph
ContextPartsWithoutFallback(doc, para_index, picked) == TextsOf(picked)

\* context_parts after the candidates were chosen: their texts, or else
\* the important paragraph, if there is one
ContextParts(doc, para_index, picked) ==
    IF picked # <<>> THEN TextsOf(picked)
    ELSE _find_important_paragraph(doc, para_index)

get_heading_context(doc, para_index) ==
    JoinHeadings(ContextParts(doc, para_index, SelectedHeadings(doc, para_index)))

(***************************************************************************)
(* DocumentSearchService._get_paragraph_context_enhanced                   *)
(***************************************************************************)

\* the label of a preceding paragraph, two ideographs, ':' and a space
LabelBefore == <<"U+524D", "U+6587", ":", " ">>

\* the label of a following paragraph
LabelAfter == <<"U+540E", "U+6587", ":", " ">>

\* the labelled preview of a cleaned text that is long enough
AdjacentOf(text, label) ==
    IF text # <<>> /\ Len(text) > 10
    THEN <<label \o Preview(text, 30)>>
    ELSE <<>>

\* the loop over i = from .. to - 1 that collects the labelled previews
RECURSIVE AdjacentFrom(_, _, _, _)
AdjacentFrom(doc, from, to, label) ==
    IF from >= to THEN <<>>
    ELSE (IF from < NumParas(doc)
          THEN AdjacentOf(CleanPara(doc, from), label)
          ELSE <<>>)
         \o AdjacentFrom(doc, from + 1, to, label)

\* adjacent_contexts: the previews of the paragraphs before, then after
AdjacentContexts(doc, para_index) ==
    AdjacentFrom(doc, Max(0, para_index - context_range), para_index, LabelBefore)
    \o AdjacentFrom(doc, para_index + 1,
                    Min(NumParas(doc), para_index + context_range + 1), LabelAfter)

\* ' >> '.join(context_parts) if context_parts else the placeholder
JoinEnhanced(context_parts) ==
    IF context_parts # <<>>
    THEN join(<<" ", ">", ">", " ">>, context_parts)
    ELSE Placeholder

\* context_parts: the main context unless it is the placeholder, then the
\* adjacent contexts joined by ' | ' if there are any
EnhancedParts(main_context, adjacent_contexts) ==
    (IF main_context # <<>> /\ main_context # Placeholder
     THEN <<main_context>> ELSE <<>>)
    \o (IF adjacent_contexts # <<>>
        THEN <<join(<<" ", "|", " ">>, adjacent_contexts)>>
        ELSE <<>>)

_get_paragraph_context_enhanced(doc, para_index) ==
    JoinEnhanced(EnhancedParts(get_heading_context(doc, para_index),
                               AdjacentContexts(doc, para_index)))

(***************************************************************************)
(* DocumentBlock and DocumentSearchService._process_file                   *)
(***************************************************************************)

\* DocumentBlock.__init__
DocumentBlock(filename, content, context, start_index, keywords) ==
    [ filename         |-> filename,
      content          |-> content,
      context          |-> context,
      start_index      |-> start_index,
      keywords         |-> keywords,
      similarity_score |-> <<0, 1>> ]

\* a to_dict that writes the 0-based index as the paragraph number
ToDictZeroBased(block) ==
    [ filename        |-> block.filename,
      keywords        |-> block.keywords,
      context         |-> block.context,
      start_paragraph |-> block.start_index,
      content         |-> block.content ]

\* DocumentBlock.to_dict: the five fields of a result record; the Chinese
\* keys are written filename, keywords, context, start_paragraph, content
to_dict(block) ==
    [ filename        |-> block.filename,
      keywords        |-> block.keywords,
      context         |-> block.context,
      start_paragraph |-> block.start_index + 1,
      content         |-> block.content ]

\* is_block_start: every paragraph starts a block
BlockStartsAtNonEmpty(text) == text # <<>>

is_block_start(text) == TRUE

\* the inner while loop: the index after the last paragraph of the block
\* that starts at paragraph start
RECURSIVE BlockEnd(_, _)
BlockEnd(doc, i) ==
    IF i < NumParas(doc) /\ ~is_block_start(CleanPara(doc, i))
    THEN BlockEnd(doc, i + 1)
    ELSE i

\* block_texts: the text of the start paragraph and the non-empty texts of
\* the paragraphs start + 1 .. end - 1
BlockTexts(doc, start, end) ==
    <<CleanPara(doc, start)>>
    \o SelectSeq([k \in 1..(end - start - 1) |-> CleanPara(doc, start + k)],
                 LAMBDA t : t # <<>>)

\* a keyword test that ignores case
FoundKeywordsIgnoringCase(keywords, block_full_text) ==
    SelectSeq(keywords, LAMBDA kw : IsSubstr(lower(kw), lower(block_full_text)))

\* [kw for kw in keywords if kw in block_full_text]
FoundKeywords(keywords, block_full_text) ==
    SelectSeq(keywords, LAMBDA kw : IsSubstr(kw, block_full_text))

DocxSuffix == <<".", "d", "o", "c", "x">>

LockPrefix == <<"~", "$">>

\* the context of the block that starts at paragraph block_start
ContextOf(doc, block_start, enhanced) ==
    IF enhanced
    THEN _get_paragraph_context_enhanced(doc, block_start)
    ELSE get_heading_context(doc, block_start)

\* the blocks after the block of text block_full_text that starts at
\* paragraph block_start was looked at: it is appended if a keyword is found
WithBlock(blocks, filename, doc, enhanced, block_start, block_full_text, found_keywords) ==
    IF found_keywords # <<>>
    THEN Append(blocks, DocumentBlock(filename, block_full_text,
                                      ContextOf(doc, block_start, enhanced),
                                      block_start, found_keywords))
    ELSE blocks

\* the same, from the keywords of the search
WithBlockOf(blocks, filename, doc, keywords, enhanced, block_start, block_full_text) ==
    WithBlock(blocks, filename, doc, enhanced, block_start, block_full_text,
              FoundKeywords(keywords, block_full_text))

\* paragraphs[k].text raises for some k in from .. to
RaisesIn(doc, from, to) == \E k \in from..to : doc.failAt = k + 1

\* the paragraphs the inner while loop reads when it starts at paragraph i:
\* i .. the paragraph that ends the block, if there is one
LastReadFrom(doc, i) == Min(BlockEnd(doc, i), NumParas(doc) - 1)

\* a while loop whose except branch returns the blocks appended so far
RECURSIVE ProcessFromKeepingBlocks(_, _, _, _, _, _)
ProcessFromKeepingBlocks(filename, doc, keywords, enhanced, i, blocks) ==
    IF i >= NumParas(doc) THEN blocks
    ELSE IF RaisesIn(doc, i, LastReadFrom(doc, i + 1)) THEN blocks
    ELSE ProcessFromKeepingBlocks(filename, doc, keywords, enhanced, BlockEnd(doc, i + 1),
             WithBlockOf(blocks, filename, doc, keywords, enhanced, i,
                         join(<<"\n">>, BlockTexts(doc, i, BlockEnd(doc, i + 1)))))

\* the while loop of _process_file from paragraph i on, blocks being the
\* blocks appended so far; a paragraph that cannot be read raises where it
\* is read (at the head of the loop or in the inner loop, before the block
\* is appended), and the result of the except branch is <<>>
RECURSIVE ProcessFrom(_, _, _, _, _, _)
ProcessFrom(filename, doc, keywords, enhanced, i, blocks) ==
    IF i >= NumParas(doc) THEN blocks
    ELSE IF doc.failAt = i + 1 THEN <<>>
    ELSE IF is_block_start(CleanPara(doc, i))
    THEN IF RaisesIn(doc, i + 1, LastReadFrom(doc, i + 1)) THEN <<>>
         ELSE ProcessFrom(filename, doc, keywords, enhanced, BlockEnd(doc, i + 1),
                  WithBlockOf(blocks, filename, doc, keywords, enhanced, i,
                              join(<<"\n">>, BlockTexts(doc, i, BlockEnd(doc, i + 1)))))
    ELSE ProcessFrom(filename, doc, keywords, enhanced, i + 1, blocks)

\* a filter that looks at the extension only
SkippedByExtension(filename) == ~endswith(filename, DocxSuffix)

\* not filename.endswith('.docx') or filename.startswith('~$')
Skipped(filename) ==
    ~endswith(filename, DocxSuffix) \/ startswith(filename, LockPrefix)

\* reading the paragraphs of doc raises
Raises(doc) == doc.failAt \in 1..NumParas(doc)

\* the file is opened and parsed: self._get_document(file_path) is reached
Opened(filename) == ~Skipped(filename)

\* the except branch prints its message
ErrorReported(filename, doc) == Opened(filename) /\ Raises(doc)

\* _process_file(filename, keywords) on the file whose parsed form is doc
_process_file(filename, doc, keywords, enhanced) ==
    IF Skipped(filename)
    THEN <<>>
    ELSE ProcessFrom(filename, doc, keywords, enhanced, 0, <<>>)

(***************************************************************************)
(* The document folders the service is run on                              *)
(***************************************************************************)

StyleNormal == <<"N", "o", "r", "m", "a", "l">>

Para(text) == [text |-> text, style |-> StyleNormal]

Doc(texts) == [paras |-> [i \in 1..Len(texts) |-> Para(texts[i])], failAt |-> 0]

FailingDoc(texts, k) == [paras |-> [i \in 1..Len(texts) |-> Para(texts[i])], failAt |-> k]

Name(stem) == stem \o DocxSuffix

\* os.listdir raises FileNotFoundError
MissingFolder == [exists |-> FALSE, names |-> <<>>, docs |-> <<>>]

\* a document of four paragraphs (one of them empty), the lock file of an
\* open document, and a document whose third paragraph cannot be read
MixedFolder ==
    [ exists |-> TRUE,
      names  |-> << Name(<<"x">>), LockPrefix \o Name(<<"x">>), Name(<<"y">>) >>,
      docs   |-> << Doc(<< <<"a", " ", "B", "#">>, <<" ">>, <<"b">>, <<"c", "\n", "a", ".">> >>),
                    Doc(<< <<"a">> >>),
                    FailingDoc(<< <<"a">>, <<"b">>, <<"c">> >>, 3) >> ]

\* two documents with five paragraphs in all, whose similarity to a
\* keyword list differs from paragraph to paragraph, and a text file
RankedFolder ==
    [ exists |-> TRUE,
      names  |-> << Name(<<"p">>), <<"n", ".", "t", "x", "t">>, Name(<<"q">>) >>,
      docs   |-> << Doc(<< <<"a">>, <<"a", " ", "b">>, <<"a", " ", "b", " ", "c">> >>),
                    Doc(<< <<"a">> >>),
                    Doc(<< <<"a", " ", "b", " ", "c", " ", "d">>, <<"a", "b">> >>) >> ]

\* three documents with the same text
TiesFolder ==
    [ exists |-> TRUE,
      names  |-> << Name(<<"x">>), Name(<<"y">>), Name(<<"z">>) >>,
      docs   |-> << Doc(<< <<"a">> >>), Doc(<< <<"a">> >>), Doc(<< <<"a">> >>) >> ]

\* two documents with the same text
PairFolder ==
    [ exists |-> TRUE,
      names  |-> << Name(<<"x">>), Name(<<"y">>) >>,
      docs   |-> << Doc(<< <<"a">> >>), Doc(<< <<"a">> >>) >> ]

Folders == {MissingFolder, MixedFolder, RankedFolder, TiesFolder}

\* the folders of the runs with two threads
SmallFolders == {MissingFolder, PairFolder}

(***************************************************************************)
(* Bounds of the model                                                     *)
(***************************************************************************)

\* number of search_documents calls in one run
MaxCalls == 2

Threads == {1, 2}

\* the keyword lists search_documents is called with: the empty list, one
\* keyword, that keyword twice, two keywords in both orders
KeywordLists ==
    { <<>>,
      << <<"a">> >>,
      << <<"a">>, <<"a">> >>,
      << <<"a">>, <<"b">> >>,
      << <<"b">>, <<"a">> >> }

(***************************************************************************)
(* State                                                                   *)
(***************************************************************************)

VARIABLES
    folder,            \* the directory at self.folder_path and its files
    enhanced_context,  \* self.enhanced_context
    _cache,            \* self._cache: cache key -> result records
    results,           \* self.results
    threads,           \* the threads that call the service
    pc,                \* per thread: where it is in search_documents
    keywords,          \* per thread: the argument of its call
    filenames,         \* per thread: filenames, the directory listing
    tasks,             \* per thread: the state of each submitted future
    all_blocks,        \* per thread: all_blocks
    top_blocks,        \* per thread: top_blocks
    result,            \* per thread: the local results, the value returned
    exc,               \* per thread: the exception its call raised
    outcome,           \* per thread: the return statement its last call took
    ncalls,            \* number of search_documents calls so far
    output_file,       \* the file save_results writes
    call,              \* a function of the service called on its own, with its arguments
    ret,               \* the value that call returned, once it has
    heap,              \* the list objects, where lists are told apart by identity
    held,              \* the list objects a caller of the service holds
    active_connections, \* WebSocketManager.active_connections
    handler,           \* per websocket: where its websocket_ask handler is
    client,            \* per websocket: whether the client is still there
    sent               \* per websocket: the messages passed to send_json

\* the application of single functions is no part of a run of the service
applied == <<call, ret>>

\* the identity of lists is no part of a run where lists are values
objects == <<heap, held>>

\* the web layer is no part of a run of the search service
web == <<active_connections, handler, client, sent>>

shared == <<folder, enhanced_context, _cache, results, threads, output_file, applied,
            objects, web>>

locals == <<pc, keywords, filenames, tasks, all_blocks, top_blocks, result, exc, outcome>>

vars == <<shared, locals, ncalls>>

EmptyCache == [k \in {} |-> <<>>]

\* no file has been written
NoFile == [written |-> FALSE]

\* the call has not returned
NotReturned == [returned |-> FALSE]

\* no function is called on its own
NotApplied ==
    /\ call = [op |-> "none"]
    /\ ret = NotReturned

\* lists are values: no list object is told apart
NoObjects ==
    /\ heap = <<>>
    /\ held = {}

\* no websocket is open
NoWeb ==
    /\ active_connections = {}
    /\ handler = <<>>
    /\ client = <<>>
    /\ sent = <<>>

InitLocals ==
    /\ pc = [c \in Threads |-> "idle"]
    /\ keywords = [c \in Threads |-> <<>>]
    /\ filenames = [c \in Threads |-> <<>>]
    /\ tasks = [c \in Threads |-> <<>>]
    /\ all_blocks = [c \in Threads |-> <<>>]
    /\ top_blocks = [c \in Threads |-> <<>>]
    /\ result = [c \in Threads |-> <<>>]
    /\ exc = [c \in Threads |-> "none"]
    /\ outcome = [c \in Threads |-> "none"]
    /\ ncalls = 0

\* DocumentSearchService.__init__, one calling thread
Init ==
    /\ folder \in Folders
    /\ enhanced_context \in BOOLEAN
    /\ _cache = EmptyCache
    /\ results = <<>>
    /\ threads = {1}
    /\ output_file = NoFile
    /\ NotApplied
    /\ InitLocals
    /\ NoObjects
    /\ NoWeb

\* DocumentSearchService.__init__, two calling threads
InitConcurrent ==
    /\ folder \in SmallFolders
    /\ enhanced_context \in BOOLEAN
    /\ _cache = EmptyCache
    /\ results = <<>>
    /\ threads = Threads
    /\ output_file = NoFile
    /\ NotApplied
    /\ InitLocals
    /\ NoObjects
    /\ NoWeb

(***************************************************************************)
(* DocumentSearchService.search_documents                                  *)
(***************************************************************************)

\* the fresh locals of a call
ResetLocals(c) ==
    /\ filenames' = [filenames EXCEPT ![c] = <<>>]
    /\ tasks' = [tasks EXCEPT ![c] = <<>>]
    /\ all_blocks' = [all_blocks EXCEPT ![c] = <<>>]
    /\ top_blocks' = [top_blocks EXCEPT ![c] = <<>>]
    /\ exc' = [exc EXCEPT ![c] = "none"]

\* the call without the test for an empty keyword list
SearchStartNoEmptyTest(c, kws) ==
    /\ c \in threads
    /\ pc[c] = "idle"
    /\ ncalls < MaxCalls
    /\ ncalls' = ncalls + 1
    /\ keywords' = [keywords EXCEPT ![c] = kws]
    /\ ResetLocals(c)
    /\ result' = [result EXCEPT ![c] = <<>>]
    /\ outcome' = [outcome EXCEPT ![c] = "running"]
    /\ pc' = [pc EXCEPT ![c] =
                IF _get_cache_key(kws) \in DOMAIN _cache THEN "hit" ELSE "listdir"]
    /\ UNCHANGED shared

\* the call and its first lines: the empty-input return, the cache key and
\* the membership test on the cache
SearchStart(c, kws) ==
    /\ c \in threads
    /\ pc[c] = "idle"
    /\ ncalls < MaxCalls
    /\ ncalls' = ncalls + 1
    /\ keywords' = [keywords EXCEPT ![c] = kws]
    /\ ResetLocals(c)
    /\ IF kws = <<>>
       THEN /\ result' = [result EXCEPT ![c] = <<>>]
            /\ outcome' = [outcome EXCEPT ![c] = "empty"]
            /\ pc' = pc
       ELSE /\ result' = [result EXCEPT ![c] = <<>>]
            /\ outcome' = [outcome EXCEPT ![c] = "running"]
            /\ pc' = [pc EXCEPT ![c] =
                        IF _get_cache_key(kws) \in DOMAIN _cache THEN "hit" ELSE "listdir"]
    /\ UNCHANGED <<shared>>

\* a cache hit that returns the entry and then searches the folder again
CacheHitRefreshing(c) ==
    /\ pc[c] = "hit"
    /\ _get_cache_key(keywords[c]) \in DOMAIN _cache
    /\ results' = _cache[_get_cache_key(keywords[c])]
    /\ result' = [result EXCEPT ![c] = _cache[_get_cache_key(keywords[c])]]
    /\ pc' = [pc EXCEPT ![c] = "listdir"]
    /\ UNCHANGED <<web, objects, applied, output_file, folder, enhanced_context, _cache, threads, keywords, filenames,
                   tasks, all_blocks, top_blocks, exc, outcome, ncalls>>

\* the cache hit: self.results = self._cache[cache_key]; return self.results
CacheHit(c) ==
    /\ pc[c] = "hit"
    /\ pc' = [pc EXCEPT ![c] = "idle"]
    /\ IF _get_cache_key(keywords[c]) \in DOMAIN _cache
       THEN /\ results' = _cache[_get_cache_key(keywords[c])]
            /\ result' = [result EXCEPT ![c] = _cache[_get_cache_key(keywords[c])]]
            /\ outcome' = [outcome EXCEPT ![c] = "hit"]
            /\ exc' = exc
       ELSE \* the entry was cleared since the membership test
            /\ exc' = [exc EXCEPT ![c] = "KeyError"]
            /\ outcome' = [outcome EXCEPT ![c] = "raised"]
            /\ UNCHANGED <<results, result>>
    /\ UNCHANGED <<web, objects, applied, output_file, folder, enhanced_context, _cache, threads, keywords, filenames,
                   tasks, all_blocks, top_blocks, ncalls>>

\* a listing whose FileNotFoundError branch caches the empty result
ListDirCachingEmpty(c) ==
    /\ pc[c] = "listdir"
    /\ IF folder.exists
       THEN /\ filenames' = [filenames EXCEPT ![c] = folder.names]
            /\ pc' = [pc EXCEPT ![c] = "submit"]
            /\ UNCHANGED <<result, outcome, _cache>>
       ELSE /\ result' = [result EXCEPT ![c] = <<>>]
            /\ outcome' = [outcome EXCEPT ![c] = "nodir"]
            /\ pc' = [pc EXCEPT ![c] = "idle"]
            /\ _cache' = [k \in DOMAIN _cache \cup {_get_cache_key(keywords[c])} |->
                            IF k = _get_cache_key(keywords[c]) THEN <<>> ELSE _cache[k]]
            /\ UNCHANGED filenames
    /\ UNCHANGED <<web, objects, applied, output_file, folder, enhanced_context, results, threads, keywords, tasks,
                   all_blocks, top_blocks, exc, ncalls>>

\* os.listdir(self.folder_path) and the FileNotFoundError branch
ListDir(c) ==
    /\ pc[c] = "listdir"
    /\ IF folder.exists
       THEN /\ filenames' = [filenames EXCEPT ![c] = folder.names]
            /\ pc' = [pc EXCEPT ![c] = "submit"]
            /\ UNCHANGED <<result, outcome>>
       ELSE /\ result' = [result EXCEPT ![c] = <<>>]
            /\ outcome' = [outcome EXCEPT ![c] = "nodir"]
            /\ pc' = [pc EXCEPT ![c] = "idle"]
            /\ UNCHANGED filenames
    /\ UNCHANGED <<shared, keywords, tasks, all_blocks, top_blocks, exc, ncalls>>

\* the state of the futures right after every file was submitted: the pool
\* runs the first max_workers work items, the others wait in its queue
Submitted(names) ==
    [i \in 1..Len(names) |-> IF i <= max_workers THEN "running" ELSE "queued"]

\* executor.submit(self._process_file, filename, keywords) for every file
Submit(c) ==
    /\ pc[c] = "submit"
    /\ tasks' = [tasks EXCEPT ![c] = Submitted(filenames[c])]
    /\ pc' = [pc EXCEPT ![c] = "collect"]
    /\ UNCHANGED <<shared, keywords, filenames, all_blocks, top_blocks, result, exc,
                   outcome, ncalls>>

\* the state of the futures after the worker of future i has finished it
\* and taken the next work item from the queue
AfterCompletion(t, i) ==
    LET queued == {j \in DOMAIN t : t[j] = "queued"}
    IN  [j \in DOMAIN t |->
            IF j = i THEN "done"
            ELSE IF queued # {} /\ j = CHOOSE m \in queued : \A k \in queued : m <= k
                 THEN "running"
                 ELSE t[j]]

\* a worker thread finishes _process_file for file i
TaskComplete(c, i) ==
    /\ pc[c] = "collect"
    /\ i \in DOMAIN tasks[c]
    /\ tasks[c][i] = "running"
    /\ tasks' = [tasks EXCEPT ![c] = AfterCompletion(tasks[c], i)]
    /\ UNCHANGED <<shared, pc, keywords, filenames, all_blocks, top_blocks, result,
                   exc, outcome, ncalls>>

\* future.result() of the task of file i of the folder
TaskResult(kws, i) ==
    _process_file(folder.names[i], folder.docs[i], kws, enhanced_context)

\* one turn of the as_completed loop: a finished future is taken and its
\* blocks are appended to all_blocks
Collect(c, i) ==
    /\ pc[c] = "collect"
    /\ i \in DOMAIN tasks[c]
    /\ tasks[c][i] = "done"
    /\ tasks' = [tasks EXCEPT ![c][i] = "collected"]
    /\ all_blocks' = [all_blocks EXCEPT ![c] = @ \o TaskResult(keywords[c], i)]
    /\ UNCHANGED <<shared, pc, keywords, filenames, top_blocks, result, exc, outcome,
                   ncalls>>

\* a loop that is left as soon as every future has finished, yielded or not
FanInAllDone(t) == \A i \in DOMAIN t : t[i] \in {"done", "collected"}

\* the as_completed loop and the with block are left: every future was
\* yielded
FanInComplete(t) == \A i \in DOMAIN t : t[i] = "collected"

\* block.similarity_score = self._calculate_similarity(block, keywords)
Scored(blocks, kws) ==
    [i \in 1..Len(blocks) |->
        [blocks[i] EXCEPT !.similarity_score = _calculate_similarity(blocks[i], kws)]]

\* the truncation without the sort
TopBlocksUnsorted(blocks) == SubSeq(blocks, 1, Min(max_results, Len(blocks)))

\* sorted(all_blocks, key=..., reverse=True)[:SEARCH_CONFIG["max_results"]]
TopBlocks(blocks) ==
    SubSeq(SortByScoreDesc(blocks), 1, Min(max_results, Len(blocks)))

\* [block.to_dict() for block in top_blocks]
Serialized(blocks) == [i \in 1..Len(blocks) |-> to_dict(blocks[i])]

\* a store that appends to the entry the key has already
CacheStoreMerging(cache, key, value) ==
    [k \in DOMAIN cache \cup {key} |->
        IF k # key THEN cache[k]
        ELSE IF key \in DOMAIN cache THEN cache[key] \o value ELSE value]

\* self._cache[cache_key] = results
CacheStore(cache, key, value) ==
    [k \in DOMAIN cache \cup {key} |-> IF k = key THEN value ELSE cache[k]]

\* after the fan-in: scoring, sorting, truncation, serialization and the
\* store into the cache
Rank(c) ==
    LET scored  == Scored(all_blocks[c], keywords[c])
        top     == TopBlocks(scored)
        records == Serialized(top)
    IN  /\ pc[c] = "collect"
        /\ FanInComplete(tasks[c])
        /\ all_blocks' = [all_blocks EXCEPT ![c] = scored]
        /\ top_blocks' = [top_blocks EXCEPT ![c] = top]
        /\ result' = [result EXCEPT ![c] = records]
        /\ _cache' = CacheStore(_cache, _get_cache_key(keywords[c]), records)
        /\ pc' = [pc EXCEPT ![c] = "return"]
        /\ UNCHANGED <<web, objects, applied, output_file, folder, enhanced_context, results, threads, keywords, filenames,
                       tasks, exc, outcome, ncalls>>

\* self.results = results; return results (the locals of the call end)
Return(c) ==
    /\ pc[c] = "return"
    /\ results' = result[c]
    /\ outcome' = [outcome EXCEPT ![c] = "miss"]
    /\ pc' = [pc EXCEPT ![c] = "idle"]
    /\ filenames' = [filenames EXCEPT ![c] = <<>>]
    /\ tasks' = [tasks EXCEPT ![c] = <<>>]
    /\ all_blocks' = [all_blocks EXCEPT ![c] = <<>>]
    /\ top_blocks' = [top_blocks EXCEPT ![c] = <<>>]
    /\ UNCHANGED <<web, objects, applied, output_file, folder, enhanced_context, _cache, threads, keywords, result, exc,
                   ncalls>>

(***************************************************************************)
(* DocumentSearchService.clear_cache, get_cache_info                       *)
(***************************************************************************)

\* a clear that drops only the entry of the last search of the thread
ClearCacheOfLastSearch(c) ==
    /\ c \in threads
    /\ pc[c] = "idle"
    /\ _cache # EmptyCache
    /\ _cache' = [k \in DOMAIN _cache \ {_get_cache_key(keywords[c])} |-> _cache[k]]
    /\ UNCHANGED <<web, objects, applied, output_file, folder, enhanced_context, results, threads, locals, ncalls>>

clear_cache(c) ==
    /\ c \in threads
    /\ pc[c] = "idle"
    /\ _cache # EmptyCache
    /\ _cache' = EmptyCache
    /\ UNCHANGED <<web, objects, applied, output_file, folder, enhanced_context, results, threads, locals, ncalls>>

\* json.dump(self.results, f, ...): the file holds the records of
\* self.results
save_results(c) ==
    /\ c \in threads
    /\ pc[c] = "idle"
    /\ output_file # [written |-> TRUE, records |-> results]
    /\ output_file' = [written |-> TRUE, records |-> results]
    /\ UNCHANGED <<web, objects, applied, folder, enhanced_context, _cache, results, threads, locals,
                   ncalls>>

get_cache_info ==
    [ cache_size      |-> Cardinality(DOMAIN _cache),
      max_cache_size  |-> cache_size,
      cached_searches |-> DOMAIN _cache ]

(***************************************************************************)
(* Specifications                                                          *)
(***************************************************************************)

Next ==
    \/ \E c \in Threads, kws \in KeywordLists : SearchStart(c, kws)
    \/ \E c \in Threads : CacheHit(c)
    \/ \E c \in Threads : ListDir(c)
    \/ \E c \in Threads : Submit(c)
    \/ \E c \in Threads : \E i \in DOMAIN tasks[c] : TaskComplete(c, i)
    \/ \E c \in Threads : \E i \in DOMAIN tasks[c] : Collect(c, i)
    \/ \E c \in Threads : Rank(c)
    \/ \E c \in Threads : Return(c)
    \/ \E c \in Threads : clear_cache(c)

\* one thread calls the service
Spec == Init /\ [][Next]_vars

\* two threads call the service
SpecConcurrent == InitConcurrent /\ [][Next]_vars

\* DocumentSearchService.__init__ of a service whose results are saved
InitSaving ==
    /\ folder \in SmallFolders
    /\ enhanced_context \in BOOLEAN
    /\ _cache = EmptyCache
    /\ results = <<>>
    /\ threads = {1}
    /\ output_file = NoFile
    /\ NotApplied
    /\ InitLocals
    /\ NoObjects
    /\ NoWeb

NextSaving ==
    \/ Next
    \/ \E c \in Threads : save_results(c)

\* one thread calls the service and saves its results
SpecSaving == InitSaving /\ [][NextSaving]_vars

(***************************************************************************)
(* The functions of the service, applied on their own                      *)
(***************************************************************************)

\* the service itself is left as it was constructed
service == <<folder, enhanced_context, _cache, results, threads, output_file, locals, ncalls,
            objects, web>>

\* the block contents _calculate_similarity is applied to
Contents ==
    { <<>>, <<"a">>, <<"b">>, <<"a", "b">>, <<"a", " ", "b">>, <<"a", " ", "a">>,
      <<"a", ",", "b", ".">> }

\* the file names _process_file is applied to
FileNames ==
    { Name(<<"x">>), LockPrefix \o Name(<<"x">>), <<"n", ".", "t", "x", "t">>,
      <<"x", ".", "d", "o", "c">>, <<"x", ".", "D", "O", "C", "X">> }

Installation ==
    <<"1", ".", " ", "I", "n", "s", "t", "a", "l", "l", "a", "t", "i", "o", "n">>

Docker == <<"d", "o", "c", "k", "e", "r">>

\* a paragraph of the style Heading 1
Heading1(text) == [text |-> text, style |-> StyleHeading \o <<" ", "1">>]

\* a text too long to score as a heading: 101 times the letter x
LongText == [i \in 1..101 |-> "x"]

\* the documents _process_file is applied to
Documents ==
    { Doc(<< >>),
      Doc(<< <<"a">> >>),
      Doc(<< <<" ">>, <<"a">>, <<"\n">>, <<"b", "a">> >>),
      Doc(<< <<"a", " ", "B", "#">>, <<"c">>, <<"b">>, <<"c", "\n", "a", ".">> >>),
      Doc(<< <<"b", "U+3002">>, <<"a", "U+3002">> >>),
      Doc(<< LongText, <<"a", "U+3002">> >>),
      FailingDoc(<< <<"a">> >>, 1),
      FailingDoc(<< <<"a">>, <<"b">>, <<"c">> >>, 3) }

\* the keyword lists the functions are applied to: those of the searches
\* and the list of one empty keyword
FunctionKeywordLists == KeywordLists \cup { << <<>> >> }

\* the calls of _calculate_similarity
SimilarityCalls ==
    { [op |-> "_calculate_similarity", content |-> content, keywords |-> kws] :
        content \in Contents, kws \in KeywordLists }

\* the calls of _process_file
ProcessFileCalls ==
    { [op |-> "_process_file", filename |-> filename, doc |-> doc, keywords |-> kws,
       enhanced |-> enhanced] :
        filename \in FileNames, doc \in Documents, kws \in FunctionKeywordLists,
        enhanced \in BOOLEAN }

\* the texts _determine_title_level is applied to
TitleTexts ==
    { <<>>,
      <<"a">>,
      <<"A">>,
      <<"A", ".">>,
      <<"A", "U+3001", "b">>,
      <<"I", "V", ".", " ", "a">>,
      <<"U+4E00">>,
      <<"U+4E00", "U+3001", "a">>,
      <<" ", "1", ".", "2">>,
      <<".", "1">>,
      <<"1">>,
      <<"1", ".">>,
      <<"1", ".", " ", "a">>,
      <<"1", ".", ".", "2">>,
      <<"1", "2", ".", "3", "a">>,
      <<"1", ".", "2", ".", "3">>,
      <<"1", ".", "2", ".", "3", ".", "4", ".", "5", ".", "6">>,
      <<"1", ".", "2", ".", "3", ".", "4", ".", "5", ".", "6", ".", "7", " ", "a">>,
      <<"1", ".", "2", ".", "3", ".", "4", ".", "5", ".", "6", ".", "7", ".", "8">> }

\* the calls of _determine_title_level
TitleLevelCalls == { [op |-> "_determine_title_level", text |-> text] : text \in TitleTexts }

\* a sentence that is no heading candidate: it ends with a full stop
Sentence(letter) == <<letter, "U+3002">>

\* a document of the given paragraphs, which may differ in style
Styled(paras) == [paras |-> paras, failAt |-> 0]

\* a long paragraph, then n sentences with the letter b, then one with a
FarFrom(n) ==
    Doc(<<LongText>> \o [i \in 1..n |-> Sentence("b")] \o << Sentence("a") >>)

\* the documents get_heading_context is applied to: numbered headings of
\* one to four levels before and after plain paragraphs, and documents
\* without any heading
HeadingDocs ==
    { Styled(<< Heading1(Installation), Para(<<"1", ".", "1", " ", "b">>), Para(Docker) >>),
      Styled(<< Heading1(Installation), Para(<<"2", ".", " ", "b">>), Para(Sentence("a")) >>),
      Styled(<< Para(<<"2", ".", " ", "b">>), Heading1(Installation), Para(Sentence("a")) >>),
      Styled(<< Para(<<"1", ".", "1", ".", "1", ".", "1", " ", "d">>),
                Para(<<"1", ".", "1", ".", "1", " ", "c">>),
                Para(<<"1", ".", "1", " ", "b">>),
                Para(<<"1", ".", " ", "a">>),
                Para(<<"z", "z">>) >>),
      Styled(<< Para(<<"1", ".", " ", "a">>),
                Para(<<"1", ".", "1", " ", "b">>),
                Para(<<"1", ".", "1", ".", "1", " ", "c">>),
                Para(<<"1", ".", "1", ".", "1", ".", "1", " ", "d">>),
                Para(Sentence("a")) >>),
      Doc(<< Sentence("b"), Sentence("a") >>),
      FarFrom(0), FarFrom(8), FarFrom(9) }

\* the calls of get_heading_context
HeadingContextCalls ==
    { c \in [op : {"get_heading_context"}, doc : HeadingDocs, para_index : 0..10] :
        c.para_index < NumParas(c.doc) }

\* a text of n letters y
Letters(n) == [i \in 1..n |-> "y"]

\* the documents _get_paragraph_context_enhanced is applied to: paragraphs
\* of 9, 10, 11 and 31 characters around short ones
EnhancedDocs ==
    { Doc(<< Letters(9), Letters(10), <<"a">>, Letters(11), Letters(31) >>),
      Doc(<< Letters(31), <<" ">>, Letters(11), <<"a">>, Letters(9) >>),
      Doc(<< <<"a">>, <<"b">> >>) }

\* the calls of _get_paragraph_context_enhanced
EnhancedContextCalls ==
    { c \in [op : {"_get_paragraph_context_enhanced"}, doc : EnhancedDocs,
              para_index : 0..4] :
        c.para_index < NumParas(c.doc) }

\* the keyword lists _get_cache_key is applied to: with and without
\* keywords that hold the character ','
KeyLists ==
    KeywordLists \cup
    { << <<"a", ",", "b">> >>,
      << <<"b">>, <<"a", ",", "b">> >>,
      << <<"a">>, <<"b">>, <<"b">> >>,
      << <<",">> >>,
      << <<>>, <<>> >> }

\* the calls of _get_cache_key
CacheKeyCalls == { [op |-> "_get_cache_key", keywords |-> kws] : kws \in KeyLists }

\* a service on which one function is called with one choice of arguments
InitFunctions ==
    /\ folder = MissingFolder
    /\ enhanced_context = FALSE
    /\ _cache = EmptyCache
    /\ results = <<>>
    /\ threads = {}
    /\ output_file = NoFile
    /\ call \in SimilarityCalls \cup ProcessFileCalls \cup TitleLevelCalls
                \cup HeadingContextCalls \cup EnhancedContextCalls \cup CacheKeyCalls
    /\ ret = NotReturned
    /\ InitLocals
    /\ NoObjects
    /\ NoWeb

\* the call returns value
Returns(value) ==
    /\ ~ret.returned
    /\ ret' = [returned |-> TRUE, value |-> value]
    /\ UNCHANGED <<call, service>>

\* self._calculate_similarity(block, keywords)
ApplySimilarity ==
    /\ call.op = "_calculate_similarity"
    /\ Returns(_calculate_similarity(DocumentBlock(<<>>, call.content, <<>>, 0, <<>>),
                                     call.keywords))

\* self._process_file(filename, keywords) on a file whose parsed form is doc
ApplyProcessFile ==
    /\ call.op = "_process_file"
    /\ Returns([blocks |-> _process_file(call.filename, call.doc, call.keywords,
                                         call.enhanced),
                opened |-> Opened(call.filename),
                error  |-> ErrorReported(call.filename, call.doc)])

\* self._determine_title_level(text)
ApplyTitleLevel ==
    /\ call.op = "_determine_title_level"
    /\ Returns(_determine_title_level(call.text))

\* self.get_heading_context(doc, para_index)
ApplyHeadingContext ==
    /\ call.op = "get_heading_context"
    /\ Returns(get_heading_context(call.doc, call.para_index))

\* self._get_paragraph_context_enhanced(doc, para_index)
ApplyEnhancedContext ==
    /\ call.op = "_get_paragraph_context_enhanced"
    /\ Returns(_get_paragraph_context_enhanced(call.doc, call.para_index))

\* self._get_cache_key(keywords)
ApplyCacheKey ==
    /\ call.op = "_get_cache_key"
    /\ Returns(_get_cache_key(call.keywords))

NextFunctions ==
    \/ ApplyCacheKey
    \/ ApplySimilarity
    \/ ApplyProcessFile
    \/ ApplyTitleLevel
    \/ ApplyHeadingContext
    \/ ApplyEnhancedContext

(***************************************************************************)
(* The service on a folder with one document under a numbered heading      *)
(***************************************************************************)

\* the texts of the paragraph that holds the keyword
DockerTexts == { Docker, Docker \o <<"U+3002">> }

\* the texts of the two paragraphs that do not
OtherTexts == { <<" ">>, <<"b">>, <<"1", ".", "1", " ", "b">> }

\* the three paragraphs after the heading: the one at position k holds
\* the keyword
Following(k, docker, other1, other2) ==
    CASE k = 1 -> << Para(docker), Para(other1), Para(other2) >>
      [] k = 2 -> << Para(other1), Para(docker), Para(other2) >>
      [] k = 3 -> << Para(other1), Para(other2), Para(docker) >>

\* a folder with one document: the heading and three paragraphs
InstallationFolder(following) ==
    [ exists |-> TRUE,
      names  |-> << Name(<<"x">>) >>,
      docs   |-> << [paras |-> <<Heading1(Installation)>> \o following, failAt |-> 0] >> ]

InstallationFolders ==
    { InstallationFolder(Following(k, docker, other1, other2)) :
        k \in 1..3, docker \in DockerTexts, other1 \in OtherTexts, other2 \in OtherTexts }

InitInstallation ==
    /\ folder \in InstallationFolders
    /\ enhanced_context \in BOOLEAN
    /\ _cache = EmptyCache
    /\ results = <<>>
    /\ threads = {1}
    /\ output_file = NoFile
    /\ NotApplied
    /\ InitLocals
    /\ NoObjects
    /\ NoWeb

NextInstallation ==
    \/ \E c \in Threads : SearchStart(c, <<Docker>>)
    \/ \E c \in Threads : CacheHit(c)
    \/ \E c \in Threads : ListDir(c)
    \/ \E c \in Threads : Submit(c)
    \/ \E c \in Threads : \E i \in DOMAIN tasks[c] : TaskComplete(c, i)
    \/ \E c \in Threads : \E i \in DOMAIN tasks[c] : Collect(c, i)
    \/ \E c \in Threads : Rank(c)
    \/ \E c \in Threads : Return(c)
    \/ \E c \in Threads : clear_cache(c)

\* one thread searches the folder for the keyword
SpecInstallation == InitInstallation /\ [][NextInstallation]_vars

\* one function of the service is called on its own
SpecFunctions == InitFunctions /\ [][NextFunctions]_vars

(***************************************************************************)
(* Properties                                                              *)
(***************************************************************************)

\* number of occurrences of x in the list l
Count(x, l) == Cardinality({i \in 1..Len(l) : l[i] = x})

\* the two lists hold the same keywords, each as often in one as in the other
IsPermutation(k, l) ==
    /\ Len(k) = Len(l)
    /\ \A x \in Range(k) \cup Range(l) : Count(x, k) = Count(x, l)

\* thread c has run the search for its keyword list to the end of the
\* ranking: its records are stored and about to be returned
JustStored(c) == c \in threads /\ pc[c] = "return"

\* a call of search_documents with the list k finds the cache entry that
\* holds the records of thread c
HitsRecordsOf(k, c) ==
    /\ _get_cache_key(k) \in DOMAIN _cache
    /\ _cache[_get_cache_key(k)] = result[c]

CallStarts(c) == c \in threads /\ pc[c] = "idle" /\ ncalls' = ncalls + 1

\* the step leaves everything a search of the folder would write untouched
NoFileIO(c) ==
    /\ filenames'[c] = <<>>
    /\ tasks'[c] = <<>>
    /\ all_blocks'[c] = <<>>
    /\ top_blocks'[c] = <<>>

\* C2: a call whose cache key is in the result cache goes to the cache
\* hit, and the hit returns the cached records, lists no directory,
\* dispatches no task, parses nothing and leaves the cache unchanged.
C2_HitReturnsCachedWithoutIO ==
    [][\A c \in Threads :
          /\ (CallStarts(c) /\ keywords'[c] # <<>>
                /\ _get_cache_key(keywords'[c]) \in DOMAIN _cache)
             => (pc'[c] = "hit" /\ NoFileIO(c) /\ _cache' = _cache)
          /\ (c \in threads /\ pc[c] = "hit" /\ pc'[c] # "hit")
             => /\ pc'[c] = "idle"
                /\ exc'[c] = "none"
                /\ result'[c] = _cache[_get_cache_key(keywords[c])]
                /\ results' = result'[c]
                /\ NoFileIO(c)
                /\ _cache' = _cache]_vars

\* C2 happens: a call was a cache hit and returned records
C2_Witness == outcome[1] = "hit" /\ pc[1] = "idle" /\ result[1] # <<>>

\* C3: a call with an empty keyword list returns an empty list at once,
\* whatever the cache holds: the cache and self.results stay as they are,
\* no directory is listed and no task dispatched.
C3_EmptyKeywordsReturnEmpty ==
    [][\A c \in Threads :
          (CallStarts(c) /\ keywords'[c] = <<>>)
          => /\ pc'[c] = "idle"
             /\ result'[c] = <<>>
             /\ exc'[c] = "none"
             /\ NoFileIO(c)
             /\ _cache' = _cache
             /\ results' = results]_vars

\* C3 happens: a call with an empty list returned while the cache held an
\* entry and self.results held records
C3_Witness ==
    /\ outcome[1] = "empty" /\ keywords[1] = <<>> /\ result[1] = <<>>
    /\ _cache # EmptyCache
    /\ results # <<>>

\* C4: over a folder that does not exist, every call ends with an empty
\* list and without an exception, no task is ever dispatched and nothing
\* is ever stored in the result cache.
C4_MissingFolderReturnsEmpty ==
    ~folder.exists =>
        /\ _cache = EmptyCache
        /\ \A c \in Threads :
              /\ result[c] = <<>>
              /\ exc[c] = "none"
              /\ tasks[c] = <<>>
              /\ pc[c] \in {"idle", "listdir"}
              /\ outcome[c] \in {"none", "empty", "running", "nodir"}

\* C4 happens: a call with keywords found no folder and returned
C4_Witness ==
    /\ ~folder.exists
    /\ outcome[1] = "nodir" /\ pc[1] = "idle" /\ keywords[1] # <<>>

\* the blocks of the files 1 .. n of the folder, in the order of the listing
RECURSIVE BlocksOfFiles(_, _)
BlocksOfFiles(kws, n) ==
    IF n = 0 THEN <<>> ELSE BlocksOfFiles(kws, n - 1) \o TaskResult(kws, n)

\* every matched block of the folder, with its similarity score
MatchedBlocks(kws) == Scored(BlocksOfFiles(kws, Len(folder.names)), kws)

\* the scores of the list do not increase
NonIncreasing(blocks) ==
    \A i \in 1..(Len(blocks) - 1) :
        ScoreLeq(blocks[i + 1].similarity_score, blocks[i].similarity_score)

\* no block outside the list top scores higher than a block of it
LeftOutScoreLower(matched, top) ==
    \A b \in Range(matched) \ Range(top) : \A t \in Range(top) :
        ScoreLeq(b.similarity_score, t.similarity_score)

\* the ranked list of thread c against the matched blocks of the folder
RankedAgainst(c, matched) ==
    /\ Len(result[c]) = Min(max_results, Len(matched))
    /\ result[c] = Serialized(top_blocks[c])
    /\ Range(top_blocks[c]) \subseteq Range(matched)
    /\ NonIncreasing(top_blocks[c])
    /\ LeftOutScoreLower(matched, top_blocks[c])

\* C5: a cache miss over an existing folder returns min(max_results,
\* number of matched blocks) records, in order of non-increasing
\* similarity score, and no matched block left out scores higher than a
\* returned one.
C5_TopResultsByScore ==
    \A c \in Threads : pc[c] = "return" => RankedAgainst(c, MatchedBlocks(keywords[c]))

\* C5 happens: five blocks of five different scores matched and the two
\* with the highest scores are returned
C5_Witness ==
    /\ pc[1] = "return"
    /\ Len(all_blocks[1]) = 5
    /\ \A i, j \in 1..5 :
          i # j => ~ScoreEq(all_blocks[1][i].similarity_score,
                            all_blocks[1][j].similarity_score)
    /\ Len(result[1]) = 2
    /\ max_results = 2

\* C6: whatever the order in which the tasks complete, a search returns
\* the same set of blocks, with the same scores, as the search whose tasks
\* complete in the order of the listing.
C6_SameBlocksForEveryCompletionOrder ==
    \A c \in Threads :
        pc[c] = "return" =>
            Range(top_blocks[c]) = Range(TopBlocks(MatchedBlocks(keywords[c])))

\* every block of every file is among the collected blocks of thread c
NoBlockOmitted(c) ==
    \A i \in 1..Len(folder.names) :
        Range(Scored(TaskResult(keywords[c], i), keywords[c])) \subseteq Range(all_blocks[c])

\* C7: while tasks are being dispatched and collected nothing is ranked,
\* serialized or cached, and once the ranking is made every task of every
\* file has been collected and no block of any task is missing from the
\* blocks that were ranked.
C7_RankingAfterFanIn ==
    \A c \in Threads :
        /\ pc[c] \in {"listdir", "submit", "collect"}
           => /\ top_blocks[c] = <<>>
              /\ result[c] = <<>>
              /\ _get_cache_key(keywords[c]) \notin DOMAIN _cache
        /\ pc[c] = "return"
           => /\ DOMAIN tasks[c] = 1..Len(folder.names)
              /\ \A i \in DOMAIN tasks[c] : tasks[c][i] = "collected"
              /\ NoBlockOmitted(c)
              /\ top_blocks[c] = TopBlocks(all_blocks[c])

\* C7 happens: the last task to be collected was the task of the first
\* file, and its blocks are in the ranking
C7_Witness ==
    /\ pc[1] = "return"
    /\ Len(filenames[1]) >= 2
    /\ TaskResult(keywords[1], 1) # <<>>
    /\ all_blocks[1][Len(all_blocks[1])].filename = folder.names[1]

\* _process_file raises on file i of the folder
RaisesOn(i) ==
    /\ endswith(folder.names[i], DocxSuffix)
    /\ ~startswith(folder.names[i], LockPrefix)
    /\ folder.docs[i].failAt \in 1..NumParas(folder.docs[i])

\* C8: a file whose processing raises contributes no block, the tasks of
\* the other files are all run and collected, and the search returns the
\* ranking of the blocks of the other files without raising.
C8_FailingFileContributesNothing ==
    \A c \in Threads :
        pc[c] = "return" =>
            /\ exc[c] = "none"
            /\ \A i \in DOMAIN tasks[c] : tasks[c][i] = "collected"
            /\ \A i \in 1..Len(folder.names) :
                  IF RaisesOn(i)
                  THEN \A b \in Range(all_blocks[c]) : b.filename # folder.names[i]
                  ELSE Range(Scored(TaskResult(keywords[c], i), keywords[c]))
                          \subseteq Range(all_blocks[c])
            /\ result[c] = Serialized(TopBlocks(all_blocks[c]))

\* C8 happens: a file raised after a block of it had matched, and the
\* search ranked the blocks of another file
C8_Witness ==
    /\ pc[1] = "return"
    /\ \E i \in 1..Len(folder.names) :
          /\ RaisesOn(i)
          /\ folder.docs[i].failAt >= 3
          /\ FoundKeywords(keywords[1], CleanPara(folder.docs[i], 0)) # <<>>
    /\ result[1] # <<>>

\* thread c has run a search that missed the cache to the end of the
\* ranking or to its return
Finished(c) == pc[c] = "return" \/ (pc[c] = "idle" /\ outcome[c] = "miss")

\* C9: when two threads have both run a search with the same cache key
\* through a cache miss, neither has raised; while both are about to
\* return the cache has an entry for the key; and the entry of the key,
\* unless clear_cache has removed it since, is the whole result of one of
\* the two calls.
C9_ConcurrentMissesStoreOneResult ==
    \A c, d \in Threads :
        (c # d /\ Finished(c) /\ Finished(d)
            /\ _get_cache_key(keywords[c]) = _get_cache_key(keywords[d]))
        => /\ exc[c] = "none" /\ exc[d] = "none"
           /\ (pc[c] = "return" /\ pc[d] = "return")
              => _get_cache_key(keywords[c]) \in DOMAIN _cache
           /\ _get_cache_key(keywords[c]) \in DOMAIN _cache
              => _cache[_get_cache_key(keywords[c])] \in {result[c], result[d]}

\* C9 happens: two searches with the same key have both missed the cache
\* and stored results that differ in order
C9_Witness ==
    /\ pc[1] = "return" /\ pc[2] = "return"
    /\ _get_cache_key(keywords[1]) = _get_cache_key(keywords[2])
    /\ result[1] # result[2]
    /\ _get_cache_key(keywords[1]) \in DOMAIN _cache

\* C10: the number of entries of the result cache that get_cache_info
\* reports is never above the maximum it reports.
C10_CacheWithinCapacity ==
    get_cache_info.cache_size <= get_cache_info.max_cache_size

\* C11: clear_cache leaves the result cache without entries, so that
\* get_cache_info reports the size 0 and no key, and a search that starts
\* on the emptied cache is a miss that goes on to list the directory.
C11_ClearCacheEmptiesCache ==
    [][\A c \in Threads :
          /\ clear_cache(c)
             => /\ get_cache_info.cache_size' = 0
                /\ get_cache_info.cached_searches' = {}
                /\ \A k \in DOMAIN _cache : k \notin DOMAIN _cache'
          /\ (CallStarts(c) /\ keywords'[c] # <<>> /\ _cache = EmptyCache)
             => pc'[c] = "listdir"]_vars

\* C11 happens: the search for the list a was run and cached, the cache was
\* cleared, and the next search for the list a is about to list the directory
C11_Witness ==
    /\ folder = RankedFolder
    /\ results # <<>>
    /\ \A i \in DOMAIN results : results[i].keywords = << <<"a">> >>
    /\ _cache = EmptyCache
    /\ ncalls = 2
    /\ keywords[1] = << <<"a">> >>
    /\ pc[1] = "listdir"

\* C12: the records save_results writes are the list that the most recent
\* search_documents call returned, also when that call returned an empty
\* list for empty keywords or a missing directory.
C12_SavesLastReturnedList ==
    [][\A c \in Threads :
          save_results(c) => output_file'.records = result[c]]_vars

\* the text kw occurs in text, character for character
OccursVerbatim(kw, text) ==
    \E i \in 0..(Len(text) - Len(kw)) : SubSeq(text, i + 1, i + Len(kw)) = kw

C14_SimilarityIsJaccard ==
    (call.op = "_calculate_similarity" /\ ret.returned) =>
        LET tokens == Range(lcut(call.content))
            kwset  == Range(call.keywords)
            score  == ret.value
        IN  /\ score[2] > 0
            /\ 0 <= score[1] /\ score[1] <= score[2]
            /\ IF tokens \cup kwset = {}
               THEN score[1] = 0
               ELSE score[1] * Cardinality(tokens \cup kwset)
                        = Cardinality(tokens \cap kwset) * score[2]

\* C14 happens: the score of an empty block against an empty keyword list
\* was computed
C14_Witness ==
    /\ call.op = "_calculate_similarity"
    /\ call.content = <<>> /\ call.keywords = <<>>
    /\ ret.returned
    /\ ret.value[1] = 0

\* the normalized text of paragraph i of doc holds a keyword of kws
ParagraphMatches(doc, i, kws) ==
    \E kw \in Range(kws) : OccursVerbatim(kw, clean_text(doc.paras[i + 1].text))

\* blocks holds one block for each matching paragraph of doc and no other
\* block, in the order of the paragraphs
OneBlockPerMatchingParagraph(doc, kws, blocks) ==
    /\ \A j \in 1..(Len(blocks) - 1) : blocks[j].start_index < blocks[j + 1].start_index
    /\ \A j \in 1..Len(blocks) :
          /\ blocks[j].start_index \in 0..(Len(doc.paras) - 1)
          /\ ParagraphMatches(doc, blocks[j].start_index, kws)
          /\ blocks[j].content = clean_text(doc.paras[blocks[j].start_index + 1].text)
    /\ \A i \in 0..(Len(doc.paras) - 1) :
          ParagraphMatches(doc, i, kws)
          => \E j \in 1..Len(blocks) : blocks[j].start_index = i

\* C15: for a .docx file that is no lock file and whose paragraphs can be
\* read, _process_file returns, in the order of the paragraphs, one block
\* for every paragraph whose normalized text holds a keyword and none for
\* any other; the start index of the block is the index of the paragraph
\* and its content the normalized text of the paragraph.
C15_OneBlockPerMatchingParagraph ==
    (/\ call.op = "_process_file"
     /\ ret.returned
     /\ endswith(call.filename, DocxSuffix)
     /\ ~startswith(call.filename, LockPrefix)
     /\ call.doc.failAt = 0)
    => OneBlockPerMatchingParagraph(call.doc, call.keywords, ret.value.blocks)

\* C15 happens: of four paragraphs the second and the fourth hold the
\* keyword, and two blocks are returned
C15_Witness ==
    /\ call.op = "_process_file"
    /\ call.filename = Name(<<"x">>)
    /\ call.doc = Doc(<< <<" ">>, <<"a">>, <<"\n">>, <<"b", "a">> >>)
    /\ call.keywords = << <<"a">> >>
    /\ ret.returned
    /\ Len(ret.value.blocks) = 2

\* the last characters of name are the characters of suffix
EndsWith(name, suffix) ==
    /\ Len(name) >= Len(suffix)
    /\ SubSeq(name, Len(name) - Len(suffix) + 1, Len(name)) = suffix

\* the first characters of name are the characters of prefix
StartsWith(name, prefix) ==
    /\ Len(name) >= Len(prefix)
    /\ SubSeq(name, 1, Len(prefix)) = prefix

C16_ContextStartsWithHeading ==
    \A c \in Threads :
        pc[c] = "return" =>
            /\ Len(result[c]) = 1
            /\ OccursVerbatim(Docker, result[c][1].content)
            /\ StartsWith(result[c][1].context, Installation)

\* no paragraph of doc is a heading candidate
NoHeadingCandidate(doc) ==
    \A i \in 1..Len(doc.paras) :
        \/ clean_text(doc.paras[i].text) = <<>>
        \/ _calculate_title_score(doc.paras[i], clean_text(doc.paras[i].text)) = 0

\* paragraph i of doc (counted from 0) can stand in for a heading: its
\* normalized text has 20 to 200 characters and is no list item
StandsIn(doc, i) ==
    LET text == clean_text(doc.paras[i + 1].text)
    IN  /\ 20 <= Len(text) /\ Len(text) <= 200
        /\ ~MatchBullet(text) /\ ~MatchStep(text)

\* the paragraphs among the nine before paragraph p that can stand in
StandInsBefore(doc, p) ==
    {i \in 0..(p - 1) : i >= p - 9 /\ StandsIn(doc, i)}

\* the context of a block at paragraph p of a document without heading
\* candidates: the first 50 characters of the nearest paragraph that can
\* stand in, or the placeholder if there is none
ContextWithoutHeadings(doc, p) ==
    IF StandInsBefore(doc, p) = {} THEN Placeholder
    ELSE LET text == clean_text(doc.paras[SetMax(StandInsBefore(doc, p)) + 1].text)
         IN  SubSeq(text, 1, 50) \o <<".", ".", ".">>

\* _process_file was applied in Standard mode to a readable document
\* without heading candidates
StandardWithoutHeadings ==
    /\ call.op = "_process_file"
    /\ ret.returned
    /\ ~call.enhanced
    /\ call.doc.failAt = 0
    /\ NoHeadingCandidate(call.doc)

\* C17, with the fallback: in Standard mode the context of a block of a
\* document without heading candidates is the start of the nearest of the
\* nine paragraphs before the block whose normalized text has 20 to 200
\* characters and is no list item, and the placeholder only if there is
\* no such paragraph.
C17_ContextWithoutHeadings ==
    StandardWithoutHeadings =>
        \A j \in 1..Len(ret.value.blocks) :
            ret.value.blocks[j].context
                = ContextWithoutHeadings(call.doc, ret.value.blocks[j].start_index)

\* C17, without the fallback: in Standard mode the context of every block
\* of a document without heading candidates is the placeholder.
C17_PlaceholderWithoutHeadings ==
    StandardWithoutHeadings =>
        \A j \in 1..Len(ret.value.blocks) : ret.value.blocks[j].context = Placeholder

\* C17 happens: a block that follows a paragraph of 101 characters in a
\* document without heading candidates has the start of that paragraph as
\* its context
C17_Witness ==
    /\ StandardWithoutHeadings
    /\ call.doc = Doc(<< LongText, <<"a", "U+3002">> >>)
    /\ Len(ret.value.blocks) = 1
    /\ ret.value.blocks[1].start_index = 1
    /\ ret.value.blocks[1].context = [i \in 1..53 |-> IF i <= 50 THEN "x" ELSE "."]

\* the first n characters of text are groups of digits with one '.' between
\* two groups
IsNumbering(text, n) ==
    /\ n >= 1 /\ n <= Len(text)
    /\ \A i \in 1..n : IsDigit(text[i]) \/ text[i] = "."
    /\ IsDigit(text[1]) /\ IsDigit(text[n])
    /\ \A i \in 1..(n - 1) : ~(text[i] = "." /\ text[i + 1] = ".")

\* the length of the leading numeric group of a text that starts with a digit
LeadingGroup(text) ==
    CHOOSE n \in 1..Len(text) :
        /\ IsNumbering(text, n)
        /\ \A m \in (n + 1)..Len(text) : ~IsNumbering(text, m)

\* the '.' separators in the leading numeric group
Separators(text) == {i \in 1..LeadingGroup(text) : text[i] = "."}

\* _determine_title_level was applied
TitleLevelReturned == call.op = "_determine_title_level" /\ ret.returned

\* C18: _determine_title_level returns an integer from 1 to 6: for a text
\* that starts with Arabic numbering the number of '.' in the leading
\* numeric group plus one, at most 6, and for any other text 1, 2 or 3.
C18_TitleLevelInRange ==
    TitleLevelReturned =>
        /\ ret.value \in 1..6
        /\ IF call.text # <<>> /\ IsDigit(call.text[1])
           THEN ret.value = Min(Cardinality(Separators(call.text)) + 1, 6)
           ELSE ret.value \in 1..3

\* C18 happens: a numbering of seven groups has level 6
C18_Witness ==
    /\ TitleLevelReturned
    /\ call.text # <<>> /\ IsDigit(call.text[1])
    /\ Cardinality(Separators(call.text)) = 6
    /\ Len(call.text) > LeadingGroup(call.text)
    /\ ret.value = 6

\* the five fields of a record
RecordFields == {"filename", "keywords", "context", "start_paragraph", "content"}

\* the lists search_documents returns or has returned: the value a call is
\* about to return, the last list returned and the lists kept in the cache
ReturnedLists ==
    {result[c] : c \in {d \in Threads : pc[d] = "return"}}
        \cup {results} \cup {_cache[k] : k \in DOMAIN _cache}

\* C20: every record search_documents returns has exactly the five fields
\* filename, keywords, context, start paragraph number and content, and the
\* start paragraph number is the 0-based start index of its block plus one,
\* an integer of at least 1.
C20_RecordsHaveFiveFields ==
    /\ \A list \in ReturnedLists : \A i \in 1..Len(list) :
          /\ DOMAIN list[i] = RecordFields
          /\ list[i].start_paragraph \in Nat
          /\ list[i].start_paragraph >= 1
    /\ \A c \in Threads :
          pc[c] = "return" =>
              /\ Len(result[c]) = Len(top_blocks[c])
              /\ \A i \in 1..Len(result[c]) :
                    /\ result[c][i].start_paragraph = top_blocks[c][i].start_index + 1
                    /\ result[c][i].filename = top_blocks[c][i].filename
                    /\ result[c][i].keywords = top_blocks[c][i].keywords
                    /\ result[c][i].context = top_blocks[c][i].context
                    /\ result[c][i].content = top_blocks[c][i].content

\* C20 happens: a call is about to return a record of a block that starts
\* at the first paragraph and one of a block that starts further down
C20_Witness ==
    \E c \in Threads :
        /\ pc[c] = "return"
        /\ \E i, j \in 1..Len(result[c]) :
              /\ top_blocks[c][i].start_index = 0
              /\ result[c][i].start_paragraph = 1
              /\ top_blocks[c][j].start_index >= 1
              /\ result[c][j].start_paragraph = top_blocks[c][j].start_index + 1

\* get_heading_context was applied
HeadingContextReturned == call.op = "get_heading_context" /\ ret.returned

\* the heading candidates in the window of the call: the paragraphs from
\* para_index back to para_index - min(para_index + 1, max_context_search) + 1
\* with a non-empty normalized text and a heading score above 0
WindowCandidates(doc, para_index) ==
    { [index |-> i,
       text  |-> clean_text(doc.paras[i + 1].text),
       score |-> _calculate_title_score(doc.paras[i + 1], clean_text(doc.paras[i + 1].text)),
       level |-> _determine_title_level(clean_text(doc.paras[i + 1].text))] :
        i \in { j \in 0..para_index :
                  /\ j > para_index - max_context_search
                  /\ clean_text(doc.paras[j + 1].text) # <<>>
                  /\ _calculate_title_score(doc.paras[j + 1],
                                            clean_text(doc.paras[j + 1].text)) > 0 } }

\* the candidates of a set in the order of their paragraphs
InDocumentOrder(cands) ==
    [k \in 1..Cardinality(cands) |->
        CHOOSE c \in cands : Cardinality({d \in cands : d.index < c.index}) = k - 1]

\* C21: the texts of the selected headings stand in the context in the
\* order of their paragraphs, the one of the smaller index to the left.
C21_HeadingsInDocumentOrder ==
    HeadingContextReturned =>
        LET picked == Range(SelectedHeadings(call.doc, call.para_index))
        IN  picked # {} =>
                ret.value = join(<<" ", ">", " ">>, TextsOf(InDocumentOrder(picked)))

\* the levels of a set of candidates
LevelsOf(cands) == {c.level : c \in cands}

\* the n smallest numbers of a set
Smallest(S, n) == {x \in S : Cardinality({y \in S : y < x}) < n}

\* parts is a choice of headings among cands as C22 describes it: one
\* candidate for each of the three smallest levels (for every level, if
\* there are fewer than three), each with the highest score of its level
IsChoiceOfHeadings(parts, cands) ==
    /\ Len(parts) <= 3
    /\ \A i, j \in 1..Len(parts) : i # j => parts[i].level # parts[j].level
    /\ LevelsOf(Range(parts)) = Smallest(LevelsOf(cands), 3)
    /\ \A i \in 1..Len(parts) :
          \A c \in cands : c.level = parts[i].level => c.score <= parts[i].score

\* the sequences of at most three candidates
ChoicesAmong(cands) == UNION { [1..n -> cands] : n \in 0..3 }

\* C22: a context built from heading candidates holds at most 3 heading
\* texts, of candidates with pairwise distinct levels; the levels are the
\* smallest levels among the candidates of the window, and the candidate
\* of each level has the highest heading score of that level.
C22_HeadingsOfSmallestLevels ==
    HeadingContextReturned =>
        LET cands == WindowCandidates(call.doc, call.para_index)
        IN  cands # {} =>
                \E parts \in ChoicesAmong(cands) :
                    /\ IsChoiceOfHeadings(parts, cands)
                    /\ ret.value = join(<<" ", ">", " ">>, TextsOf(parts))

\* C22 happens: the window holds candidates of four levels, two of them
\* of level 3, and the context is made of the headings of the levels 3, 2
\* and 1, the one of level 3 being the candidate with the higher score
C22_Witness ==
    /\ HeadingContextReturned
    /\ LevelsOf(WindowCandidates(call.doc, call.para_index)) = 1..4
    /\ Cardinality({c \in WindowCandidates(call.doc, call.para_index) : c.level = 3}) = 2
    /\ ret.value = <<"1", ".", "1", ".", "1", " ", "c", " ", ">", " ",
                     "1", ".", "1", " ", "b", " ", ">", " ", "1", ".", " ", "a">>

\* the paragraphs before paragraph p, at any distance, that can stand in
\* for a heading
QualifiedBefore(doc, p) == {i \in 0..(p - 1) : StandsIn(doc, i)}

\* C23: when the window holds no heading candidate, the context is the
\* first 50 characters (with an ellipsis if cut) of the nearest paragraph
\* before para_index, however far back, whose normalized text has 20 to 200
\* characters and is no list item or step, and the placeholder only if no
\* paragraph before para_index qualifies.
C23_NearestQualifiedAtAnyDistance ==
    (HeadingContextReturned /\ WindowCandidates(call.doc, call.para_index) = {}) =>
        LET qualified == QualifiedBefore(call.doc, call.para_index)
        IN  ret.value =
                IF qualified = {} THEN Placeholder
                ELSE Preview(clean_text(call.doc.paras[SetMax(qualified) + 1].text), 50)

\* the paragraphs among the context_range before and the context_range
\* after paragraph p whose normalized text has at least 10 characters
InformativeAround(doc, p) ==
    { i \in 0..(NumParas(doc) - 1) :
        /\ i # p
        /\ i >= p - context_range /\ i <= p + context_range
        /\ Len(clean_text(doc.paras[i + 1].text)) >= 10 }

\* the item of paragraph i next to paragraph p: the label and the first 30
\* characters of the normalized text, with an ellipsis if it is longer
ItemOf(doc, p, i) ==
    (IF i < p THEN LabelBefore ELSE LabelAfter)
        \o Preview(clean_text(doc.paras[i + 1].text), 30)

\* the items of a set of paragraphs in the order of the paragraphs
ItemsOf(doc, p, around) ==
    [k \in 1..Cardinality(around) |->
        ItemOf(doc, p, CHOOSE i \in around : Cardinality({j \in around : j < i}) = k - 1)]

\* C24: in Enhanced mode every paragraph among the context_range before
\* and the context_range after para_index whose normalized text has at
\* least 10 characters gives one adjacent-context item, its first 30
\* characters with an ellipsis if it is longer, and no other paragraph
\* gives one.
C24_TenCharactersAreInformative ==
    (call.op = "_get_paragraph_context_enhanced" /\ ret.returned) =>
        ret.value =
            JoinEnhanced(EnhancedParts(
                get_heading_context(call.doc, call.para_index),
                ItemsOf(call.doc, call.para_index,
                        InformativeAround(call.doc, call.para_index))))

(***************************************************************************)
(* The service where lists are objects                                     *)
(*                                                                         *)
(* A Python list is an object: self._cache[cache_key] = results,           *)
(* self.results = results and return results hand out the same object.     *)
(* heap[id] is what the list object id holds; here _cache maps a key to a  *)
(* list object, results is a list object, and a call returns one.          *)
(***************************************************************************)

\* number of search_documents calls in a run where lists are objects
MaxSearches == 3

\* a folder with one document of three paragraphs
AliasFolder ==
    [ exists |-> TRUE,
      names  |-> << Name(<<"x">>) >>,
      docs   |-> << Doc(<< <<"a">>, <<"a", " ", "b">>, <<"b">> >>) >> ]

\* keyword lists of which no two have the same key
AliasKeywordLists == { <<>>, << <<"a">> >>, << <<"b">> >>, << <<"a">>, <<"b">> >> }

\* the records a cache miss with the keywords kws computes over the folder
SearchRecords(kws) == Serialized(TopBlocks(MatchedBlocks(kws)))

\* the list object the next list expression creates
NewList == Len(heap) + 1

\* DocumentSearchService.__init__: self.results = [] is the first list object
InitAliasing ==
    /\ folder \in {AliasFolder, MissingFolder}
    /\ enhanced_context = FALSE
    /\ _cache = EmptyCache
    /\ heap = << <<>> >>
    /\ results = 1
    /\ held = {}
    /\ threads = {}
    /\ output_file = NoFile
    /\ NotApplied
    /\ InitLocals
    /\ NoWeb

\* the call returns the list object ref; hit says by which return statement
ReturnsList(kws, ref, hit) ==
    /\ call' = [op |-> "search_documents", keywords |-> kws]
    /\ ret' = [returned |-> TRUE, hit |-> hit, ref |-> ref, value |-> heap'[ref]]
    /\ held' = held \cup {ref}
    /\ ncalls' = ncalls + 1

\* search_documents(kws), from call to return, by one caller
SearchByReference(kws) ==
    /\ ncalls < MaxSearches
    /\ IF kws = <<>> \/ (_get_cache_key(kws) \notin DOMAIN _cache /\ ~folder.exists)
       THEN \* return []: a new, empty list
            /\ heap' = Append(heap, <<>>)
            /\ UNCHANGED <<_cache, results>>
            /\ ReturnsList(kws, NewList, FALSE)
       ELSE IF _get_cache_key(kws) \in DOMAIN _cache
       THEN \* self.results = self._cache[cache_key]; return self.results
            /\ results' = _cache[_get_cache_key(kws)]
            /\ UNCHANGED <<_cache, heap>>
            /\ ReturnsList(kws, _cache[_get_cache_key(kws)], TRUE)
       ELSE \* results = [block.to_dict() ...]; self._cache[cache_key] = results;
            \* self.results = results; return results
            /\ heap' = Append(heap, SearchRecords(kws))
            /\ _cache' = CacheStore(_cache, _get_cache_key(kws), NewList)
            /\ results' = NewList
            /\ ReturnsList(kws, NewList, FALSE)
    /\ UNCHANGED <<folder, enhanced_context, threads, output_file, locals, web>>

\* list l without its element i
Without(l, i) == SubSeq(l, 1, i - 1) \o SubSeq(l, i + 1, Len(l))

\* the caller removes record i from a list it received: del l[i]
CallerRemoves(ref, i) ==
    /\ ref \in held
    /\ i \in 1..Len(heap[ref])
    /\ heap' = [heap EXCEPT ![ref] = Without(heap[ref], i)]
    /\ UNCHANGED <<held, applied, folder, enhanced_context, _cache, results, threads,
                   output_file, locals, ncalls, web>>

NextAliasing ==
    \/ \E kws \in AliasKeywordLists : SearchByReference(kws)
    \/ \E ref \in held : \E i \in 1..max_results : CallerRemoves(ref, i)

\* one caller searches and changes the lists it receives
SpecAliasing == InitAliasing /\ [][NextAliasing]_vars

\* C25: the list a call returns is shared neither with the cache entry nor
\* with the list of another call: whatever a caller did to the lists it
\* received, a cache hit returns the records that were stored for the
\* keywords, those the search over the folder computed.
C25_HitReturnsStoredRecords ==
    (call.op = "search_documents" /\ ret.returned /\ ret.hit) =>
        ret.value = SearchRecords(call.keywords)

\* C26: keyword lists of different keyword sets never have the same cache
\* key: with a collision-free hash, _get_cache_key returns the key of
\* another list only if both lists have the same sorted sequence of
\* keywords, also when a keyword holds the character ','.
C26_EqualKeysOnlyForEqualSortedLists ==
    (call.op = "_get_cache_key" /\ ret.returned) =>
        \A other \in KeyLists :
            _get_cache_key(other) = ret.value => sorted(other) = sorted(call.keywords)

\* _process_file was applied to a keyword list that is not empty
ProcessFileReturned ==
    call.op = "_process_file" /\ ret.returned /\ call.keywords # <<>>

\* C27: every record has a content that is not empty and a list of matched
\* keywords with at least one keyword that is not empty, for every keyword
\* list that is not empty, also one that holds the empty string, and for
\* documents with empty paragraphs.  The records of search_documents are
\* the blocks _process_file returns, serialized field by field.
C27_RecordsHaveContentAndKeyword ==
    ProcessFileReturned =>
        \A j \in 1..Len(ret.value.blocks) :
            /\ to_dict(ret.value.blocks[j]).content # <<>>
            /\ \E k \in 1..Len(to_dict(ret.value.blocks[j]).keywords) :
                  to_dict(ret.value.blocks[j]).keywords[k] # <<>>

(***************************************************************************)
(* The web layer: websocket_ask, WebSocketManager, QAService               *)
(*                                                                         *)
(* One websocket_ask handler runs per websocket.  handler[w].pc is the     *)
(* statement the handler of w is at, sent[w] the messages that             *)
(* websocket.send_json delivered, client[w] whether the client is still    *)
(* there: once it is gone, websocket.send_json and receive_json raise.     *)
(* The calls of the model service, of the search and of the answer stream  *)
(* return or raise.                                                        *)
(***************************************************************************)

\* the websockets of a run
Sockets == {1, 2}

\* the chunks the answer stream yields at most
MaxChunks == 2

\* what the web layer leaves alone
searcher ==
    <<folder, enhanced_context, _cache, results, threads, output_file, locals, ncalls,
      applied, objects>>

\* the messages of the steps
Step(name) == [step |-> name]

AnsweringStart == [step |-> "answering", status |-> "start"]

AnsweringChunk(chunk_count) == [step |-> "answering", chunk_id |-> chunk_count]

\* QAService.__init__ with its WebSocketManager, before any connection
InitWeb ==
    /\ folder = MissingFolder
    /\ enhanced_context = FALSE
    /\ _cache = EmptyCache
    /\ results = <<>>
    /\ threads = {}
    /\ output_file = NoFile
    /\ NotApplied
    /\ InitLocals
    /\ NoObjects
    /\ active_connections = {}
    /\ handler = [w \in Sockets |-> [pc |-> "new", chunk_count |-> 0]]
    /\ client = [w \in Sockets |-> "here"]
    /\ sent = [w \in Sockets |-> <<>>]

\* the handler of w goes on at the statement pc
Goto(w, pc_next) == handler' = [handler EXCEPT ![w].pc = pc_next]

\* WebSocketManager.disconnect
disconnect(connections, w) == connections \ {w}

\* WebSocketManager.send_json: the message is delivered, or the send
\* raises and the websocket is disconnected
send_json(w, data) ==
    IF client[w] = "here"
    THEN /\ sent' = [sent EXCEPT ![w] = Append(@, data)]
         /\ UNCHANGED active_connections
    ELSE /\ active_connections' = disconnect(active_connections, w)
         /\ UNCHANGED sent

\* the client closes the connection or is lost
ClientLeaves(w) ==
    /\ handler[w].pc \notin {"new", "finished"}
    /\ client[w] = "here"
    /\ client' = [client EXCEPT ![w] = "gone"]
    /\ UNCHANGED <<searcher, active_connections, handler, sent>>

\* WebSocketManager.connect: websocket.accept() and active_connections.add
connect(w) ==
    /\ handler[w].pc = "new"
    /\ active_connections' = active_connections \cup {w}
    /\ Goto(w, "receive")
    /\ UNCHANGED <<searcher, client, sent>>

\* websocket_ask: receive_json and the test of the question.  question is
\* "" for an empty one, "invalid" for data that makes the handler raise
ReceiveQuestion(w, question) ==
    /\ handler[w].pc = "receive"
    /\ IF client[w] = "gone"
       THEN \* except WebSocketDisconnect: disconnect
            /\ active_connections' = disconnect(active_connections, w)
            /\ Goto(w, "close")
            /\ UNCHANGED sent
       ELSE IF question \in {"", "invalid"}
       THEN \* the step error is sent, for the empty question and in the
            \* except Exception branch
            /\ send_json(w, Step("error"))
            /\ Goto(w, "close")
       ELSE /\ Goto(w, "analyzing")
            /\ UNCHANGED <<active_connections, sent>>
    /\ UNCHANGED <<searcher, client>>

\* a statement of process_question that sends the message data and goes on
\* at pc_next
Sends(w, pc_here, data, pc_next) ==
    /\ handler[w].pc = pc_here
    /\ send_json(w, data)
    /\ Goto(w, pc_next)
    /\ UNCHANGED <<searcher, client>>

\* a call that returns (on to pc_next) or raises (on to pc_raised)
Calls(w, pc_here, returns, pc_next, pc_raised) ==
    /\ handler[w].pc = pc_here
    /\ Goto(w, IF returns THEN pc_next ELSE pc_raised)
    /\ UNCHANGED <<searcher, client, active_connections, sent>>

\* _analyze_question: the step analyzing
Analyzing(w) == Sends(w, "analyzing", Step("analyzing"), "call_qwen")

\* _analyze_question: call_qwen and the parsing of its result
CallQwen(w, returns) == Calls(w, "call_qwen", returns, "analyzed", "failed")

\* _analyze_question: the step analyzed
Analyzed(w) == Sends(w, "analyzed", Step("analyzed"), "searching")

\* _search_documents: the step searching
Searching(w) == Sends(w, "searching", Step("searching"), "search")

\* _search_documents: self.document_searcher.search_documents(keywords)
SearchCall(w, returns) == Calls(w, "search", returns, "searched", "failed")

\* _search_documents: the step searched
Searched(w) == Sends(w, "searched", Step("searched"), "answering")

\* _generate_answer: the step answering with status start
Answering(w) ==
    /\ handler[w].pc = "answering"
    /\ send_json(w, AnsweringStart)
    /\ handler' = [handler EXCEPT ![w] = [pc |-> "stream", chunk_count |-> 0]]
    /\ UNCHANGED <<searcher, client>>

\* _generate_answer: one turn of the async for loop, a chunk is sent
StreamChunk(w) ==
    /\ handler[w].pc = "stream"
    /\ handler[w].chunk_count < MaxChunks
    /\ send_json(w, AnsweringChunk(handler[w].chunk_count + 1))
    /\ handler' = [handler EXCEPT ![w].chunk_count = @ + 1]
    /\ UNCHANGED <<searcher, client>>

\* _generate_answer: the stream ends; "".join(answer_chunks) returns and
\* the step answered is sent, or it raises (a chunk that is no str) and the
\* except branch sends the step error; either way _generate_answer returns
StreamEnd(w, returns) ==
    /\ handler[w].pc = "stream"
    /\ returns \/ handler[w].chunk_count > 0
    /\ send_json(w, IF returns THEN Step("answered") ELSE Step("error"))
    /\ Goto(w, "completed")
    /\ UNCHANGED <<searcher, client>>

\* process_question: the step completed
Completed(w) == Sends(w, "completed", Step("completed"), "close")

\* process_question: the except branch sends the step error
Failed(w) == Sends(w, "failed", Step("error"), "close")

\* websocket_ask: finally, websocket.close()
Close(w) ==
    /\ handler[w].pc = "close"
    /\ Goto(w, "finished")
    /\ client' = [client EXCEPT ![w] = "gone"]
    /\ UNCHANGED <<searcher, active_connections, sent>>

\* WebSocketManager.get_connection_count
get_connection_count == Cardinality(active_connections)

NextWeb ==
    \/ \E w \in Sockets : ClientLeaves(w)
    \/ \E w \in Sockets : connect(w)
    \/ \E w \in Sockets : \E question \in {"", "invalid", "q"} : ReceiveQuestion(w, question)
    \/ \E w \in Sockets : Analyzing(w)
    \/ \E w \in Sockets : \E returns \in BOOLEAN : CallQwen(w, returns)
    \/ \E w \in Sockets : Analyzed(w)
    \/ \E w \in Sockets : Searching(w)
    \/ \E w \in Sockets : \E returns \in BOOLEAN : SearchCall(w, returns)
    \/ \E w \in Sockets : Searched(w)
    \/ \E w \in Sockets : Answering(w)
    \/ \E w \in Sockets : StreamChunk(w)
    \/ \E w \in Sockets : \E returns \in BOOLEAN : StreamEnd(w, returns)
    \/ \E w \in Sockets : Completed(w)
    \/ \E w \in Sockets : Failed(w)
    \/ \E w \in Sockets : Close(w)

\* the handlers of the websockets, interleaved at their awaits
SpecWeb == InitWeb /\ [][NextWeb]_vars

\* the handlers that have finished
FinishedHandlers == {w \in Sockets : handler[w].pc = "finished"}

\* C28: every websocket that connect added is removed in the end: once the
\* handler of a websocket has finished, the websocket is no longer in
\* active_connections, so that get_connection_count counts no websocket
\* whose handler has finished.
C28_FinishedHandlersAreDisconnected ==
    /\ FinishedHandlers \cap active_connections = {}
    /\ get_connection_count <= Cardinality(Sockets \ FinishedHandlers)

\* the place of a message in the order of the steps; 0 for the step error
StepRank(data) ==
    CASE data.step = "analyzing" -> 1
      [] data.step = "analyzed"  -> 2
      [] data.step = "searching" -> 3
      [] data.step = "searched"  -> 4
      [] data.step = "answering" -> IF "chunk_id" \in DOMAIN data THEN 6 ELSE 5
      [] data.step = "answered"  -> 7
      [] data.step = "completed" -> 8
      [] OTHER -> 0

\* the chunk messages of a sequence of messages
ChunksOf(msgs) == SelectSeq(msgs, LAMBDA data : "chunk_id" \in DOMAIN data)

\* the messages of the steps stand in the order of the steps, only chunks
\* repeat, and the chunks are numbered from 1
StepsInOrder(msgs) ==
    /\ \A i, j \in 1..Len(msgs) :
          (i < j /\ StepRank(msgs[i]) # 0 /\ StepRank(msgs[j]) # 0) =>
              \/ StepRank(msgs[i]) < StepRank(msgs[j])
              \/ StepRank(msgs[i]) = 6 /\ StepRank(msgs[j]) = 6
    /\ \A k \in 1..Len(ChunksOf(msgs)) : ChunksOf(msgs)[k].chunk_id = k

\* no step completed after a step error
NoCompletedAfterError(msgs) ==
    \A i, j \in 1..Len(msgs) :
        i < j => ~(msgs[i].step = "error" /\ msgs[j].step = "completed")

\* C29: the step messages of a question are in the order analyzing,
\* analyzed, searching, searched, answering (start), the chunks 1..n,
\* answered, completed, and after a message of the step error no message
\* of the step completed is sent.
C29_StepsInOrderAndErrorIsFinal ==
    \A w \in Sockets : StepsInOrder(sent[w]) /\ NoCompletedAfterError(sent[w])

====
